---- MODULE Spec2Model ----
(***************************************************************************)
(* The safety-gated actuation pipeline of plant-ops-ai: the Safety         *)
(* Validator (src/src/safety.py), the Action Executor                      *)
(* (src/src/action_executor.py), the actuator-state cache                  *)
(* (src/src/actuator_state.py), the decision log (src/src/logger.py), the  *)
(* orchestrating cycle (src/src/plant_agent.py) and the Telegram entry     *)
(* points that reach the executor (src/bot/handlers.py).                   *)
(*                                                                         *)
(* Conventions.                                                            *)
(*   - An optional value (a dict key that may be absent, a field that may  *)
(*     be None) is a set with at most one element: {} is absent / None.    *)
(*   - Time is counted in minutes since an arbitrary UTC midnight.  A log  *)
(*     timestamp is the minute at which the record was written; the ISO    *)
(*     text written by isoformat() and read back by fromisoformat() names  *)
(*     the same instant, so only the instant is kept.                      *)
(*   - A reason string is represented by a tag naming the message.         *)
(***************************************************************************)
EXTENDS Integers, Sequences, FiniteSets, TLC

\* ------------------------------------------------------------------------
\* Bounds of the model
\* ------------------------------------------------------------------------
MaxLog == 2
MaxActions == 2
MaxTicks == 2
MaxHist == 2
MaxAttempts == 3

\* ------------------------------------------------------------------------
\* Program constants
\* ------------------------------------------------------------------------
HourWindowMin == 60
HistoryN == 10
DefaultWaterSec == 5
DefaultCirculationSec == 30

MinutesPerDay == 24 * 60
TickMin == HourWindowMin
StartOfRun == MinutesPerDay - 60

\* ------------------------------------------------------------------------
\* Optional values
\* ------------------------------------------------------------------------
None == {}

Some(v) == {v}

Get(opt, default) == IF opt = {} THEN default ELSE CHOOSE v \in opt : TRUE

Last(s) == s[Len(s)]

\* ------------------------------------------------------------------------
\* src/src/safety.py
\* ------------------------------------------------------------------------
ALLOWED_ACTIONS ==
    {"water", "light_on", "light_off", "heater_on", "heater_off",
     "circulation", "do_nothing", "notify_human"}

PASSTHROUGH == {"do_nothing", "notify_human"}

\* ValidationResult(valid, reason, capped_action)
ValidationResult(valid, reason, capped_action) ==
    [valid |-> valid, reason |-> reason, capped_action |-> capped_action]

\* A check that looks for the stop file at a path nobody writes to.
check_emergency_stop_wrong_path(stop_file) == FALSE

\* check_emergency_stop: the stop file exists
check_emergency_stop(stop_file) == stop_file

\* entry.get("decision", {}).get("action", ""): a record written by
\* logger.log_decision nests the proposed action under "decision"; a record
\* written by handlers._log_decision has no "decision" key.
DecisionAction(entry) == IF entry.fmt = "agent" THEN entry.action ELSE ""

\* The window with its edge left out: a record exactly `minutes` old is
\* dropped.
_actions_in_window_open(history, now_, minutes, action_type) ==
    LET cutoff == now_ - minutes
        Keep(entry) ==
            /\ ~(entry.timestamp <= cutoff)
            /\ ~(action_type # "" /\ DecisionAction(entry) # action_type)
    IN  SelectSeq(history, Keep)

_actions_in_window(history, now_, minutes, action_type) ==
    LET cutoff == now_ - minutes
        Keep(entry) ==
            /\ ~(entry.timestamp < cutoff)
            /\ ~(action_type # "" /\ DecisionAction(entry) # action_type)
    IN  SelectSeq(history, Keep)

\* The daily count reading the action from the top level of the record,
\* where only the manual log writer puts it.
_actions_today_top_level_action(history, now_, action_type) ==
    LET today_start == now_ - (now_ % MinutesPerDay)
        TopLevelAction(entry) == IF entry.fmt = "manual" THEN entry.action ELSE ""
        Keep(entry) ==
            /\ ~(entry.timestamp < today_start)
            /\ ~(action_type # "" /\ TopLevelAction(entry) # action_type)
    IN  SelectSeq(history, Keep)

_actions_today(history, now_, action_type) ==
    LET today_start == now_ - (now_ % MinutesPerDay)
        Keep(entry) ==
            /\ ~(entry.timestamp < today_start)
            /\ ~(action_type # "" /\ DecisionAction(entry) # action_type)
    IN  SelectSeq(history, Keep)

\* capped = dict(action); every key of params is copied to the top level
\* unless the top level already has it (setdefault).
Flatten(action) ==
    [action EXCEPT !.duration_sec =
        IF action.duration_sec # None THEN action.duration_sec
        ELSE action.params.duration_sec]

\* sensor_data.water_tank_ok is False, read as "is not False": None passes.
TankLow_when_not_true(sensor) == sensor.water_tank_ok # Some(TRUE)

\* sensor_data is not None and sensor_data.water_tank_ok is False
TankLow(sensor) == sensor.water_tank_ok = Some(FALSE)

\* The duration test letting zero through.
NotPositive_negative_only(requested) == requested < 0

\* requested <= 0
NotPositive(requested) == requested <= 0

\* The cap left out: the requested duration goes through as asked.
CapDuration_absent(action, requested, max_duration) == action

\* if requested > max_duration:
\*     action["duration_sec"] = max_duration; action["_capped"] = True
CapDuration(action, requested, max_duration) ==
    IF requested > max_duration
    THEN [action EXCEPT !.duration_sec = Some(max_duration), !.capped = TRUE]
    ELSE action

\* The water rule with the interval and daily checks before the tank and
\* duration checks.
_validate_water_history_first(action, lim, history, now_, sensor) ==
    LET max_duration == lim.water.max_duration_sec
        min_interval == lim.water.min_interval_min
        daily_max == lim.water.daily_max_count
        requested == Get(action.duration_sec, 0)
        after_cap == CapDuration(action, requested, max_duration)
        recent_water == _actions_in_window(history, now_, min_interval, "water")
        today_water == _actions_today(history, now_, "water")
    IN  IF recent_water # << >>
        THEN ValidationResult(FALSE, "water_min_interval", after_cap)
        ELSE IF Len(today_water) >= daily_max
        THEN ValidationResult(FALSE, "water_daily_limit", after_cap)
        ELSE IF TankLow(sensor)
        THEN ValidationResult(FALSE, "tank_low", action)
        ELSE IF NotPositive(requested)
        THEN ValidationResult(FALSE, "water_duration_not_positive", action)
        ELSE ValidationResult(TRUE, "OK", after_cap)

_validate_water(action, lim, history, now_, sensor) ==
    LET max_duration == lim.water.max_duration_sec
        min_interval == lim.water.min_interval_min
        daily_max == lim.water.daily_max_count
        requested == Get(action.duration_sec, 0)
        after_cap == CapDuration(action, requested, max_duration)
        recent_water == _actions_in_window(history, now_, min_interval, "water")
        today_water == _actions_today(history, now_, "water")
    IN  IF TankLow(sensor)
        THEN ValidationResult(FALSE, "tank_low", action)
        ELSE IF NotPositive(requested)
        THEN ValidationResult(FALSE, "water_duration_not_positive", action)
        ELSE IF recent_water # << >>
        THEN ValidationResult(FALSE, "water_min_interval", after_cap)
        ELSE IF Len(today_water) >= daily_max
        THEN ValidationResult(FALSE, "water_daily_limit", after_cap)
        ELSE ValidationResult(TRUE, "OK", after_cap)

\* The temperature test with > in place of >=.
_validate_heater_above_only(action, lim, sensor) ==
    LET max_temp == lim.heater.max_temp_c
    IN  IF Get(action.action, "") = "heater_off"
        THEN ValidationResult(TRUE, "OK", action)
        ELSE IF sensor.heater_lockout = Some(TRUE)
        THEN ValidationResult(FALSE, "heater_lockout", action)
        ELSE IF sensor.temperature_c > max_temp
        THEN ValidationResult(FALSE, "heater_temp_at_max", action)
        ELSE ValidationResult(TRUE, "OK", action)

_validate_heater(action, lim, sensor) ==
    LET max_temp == lim.heater.max_temp_c
    IN  IF Get(action.action, "") = "heater_off"
        THEN ValidationResult(TRUE, "OK", action)
        ELSE IF sensor.heater_lockout = Some(TRUE)
        THEN ValidationResult(FALSE, "heater_lockout", action)
        ELSE IF sensor.temperature_c >= max_temp
        THEN ValidationResult(FALSE, "heater_temp_at_max", action)
        ELSE ValidationResult(TRUE, "OK", action)

\* The offset of the host's local clock from UTC, in minutes: the light
\* rule reads datetime.now() without a time zone, everything else reads
\* datetime.now(timezone.utc).
UtcOffsetMin == 120

\* strftime("%H:%M"): the four digits of a time of day, tens of hours
\* first.  The colon sits at the same place in every such text and takes
\* no part in a comparison.  TimeText(MinutesPerDay) is the text "24:00".
TimeText(minutes) ==
    << (minutes \div 60) \div 10, (minutes \div 60) % 10,
       (minutes % 60) \div 10, (minutes % 60) % 10 >>

\* a < b on two such texts: Python compares strings character by character.
TextLess(a, b) ==
    \E i \in 1..4 : a[i] < b[i] /\ \A j \in 1..(i - 1) : a[j] = b[j]

\* The light rule reading the UTC clock.
LocalTimeOfDay_utc(now_) == now_ % MinutesPerDay

\* datetime.now() on the host clock, as minutes of the local day.
LocalTimeOfDay(now_) == (now_ + UtcOffsetMin) % MinutesPerDay

\* The light rule applying the schedule to light_off as well.
_validate_light_off_scheduled(action, lim, now_) ==
    LET schedule_on == lim.light.schedule_on
        schedule_off == lim.light.schedule_off
        now_time == TimeText(LocalTimeOfDay(now_))
    IN  IF TextLess(now_time, schedule_on)
        THEN ValidationResult(FALSE, "light_too_early", action)
        ELSE IF schedule_off # TimeText(MinutesPerDay)
                /\ ~TextLess(now_time, schedule_off)
        THEN ValidationResult(FALSE, "light_too_late", action)
        ELSE ValidationResult(TRUE, "OK", action)

_validate_light(action, lim, now_) ==
    LET schedule_on == lim.light.schedule_on
        schedule_off == lim.light.schedule_off
        now_time == TimeText(LocalTimeOfDay(now_))
    IN  IF Get(action.action, "") = "light_off"
        THEN ValidationResult(TRUE, "OK", action)
        ELSE IF TextLess(now_time, schedule_on)
        THEN ValidationResult(FALSE, "light_too_early", action)
        ELSE IF schedule_off # TimeText(MinutesPerDay)
                /\ ~TextLess(now_time, schedule_off)
        THEN ValidationResult(FALSE, "light_too_late", action)
        ELSE ValidationResult(TRUE, "OK", action)

\* The circulation rule with a minimum interval like the water rule's.
_validate_circulation_with_interval(action, lim, history, now_) ==
    LET max_duration == lim.circulation.max_duration_sec
        requested == Get(action.duration_sec, 0)
    IN  IF NotPositive(requested)
        THEN ValidationResult(FALSE, "circulation_duration_not_positive", action)
        ELSE IF _actions_in_window(history, now_, HourWindowMin, "circulation") # << >>
        THEN ValidationResult(FALSE, "circulation_min_interval", action)
        ELSE ValidationResult(TRUE, "OK",
                              CapDuration(action, requested, max_duration))

\* history and now are parameters the rule never reads.
_validate_circulation(action, lim, history, now_) ==
    LET max_duration == lim.circulation.max_duration_sec
        requested == Get(action.duration_sec, 0)
    IN  IF NotPositive(requested)
        THEN ValidationResult(FALSE, "circulation_duration_not_positive", action)
        ELSE ValidationResult(TRUE, "OK",
                              CapDuration(action, requested, max_duration))

\* The count without the filter: every record of the window counts.
RealActions_unfiltered(history, now_) ==
    _actions_in_window(history, now_, HourWindowMin, "")

\* The global check counts the window's entries whose decision action is
\* neither do_nothing nor notify_human.
RealActions(history, now_) ==
    LET IsReal(entry) == DecisionAction(entry) \notin PASSTHROUGH
    IN  SelectSeq(_actions_in_window(history, now_, HourWindowMin, ""), IsReal)

\* The ceiling compared with > instead of >=.
GlobalLimitReached_off_by_one(history, now_, lim) ==
    Len(RealActions(history, now_)) > lim.max_actions_per_hour

GlobalLimitReached(history, now_, lim) ==
    Len(RealActions(history, now_)) >= lim.max_actions_per_hour

\* The passthrough actions let through before the stop file is looked at.
EarlyCheck_passthrough_first(stop_file, action_type) ==
    IF action_type \in PASSTHROUGH THEN "passthrough"
    ELSE IF check_emergency_stop(stop_file) THEN "stop"
    ELSE IF action_type \notin ALLOWED_ACTIONS THEN "allowlist"
    ELSE "go on"

\* The allowlist test left out.
EarlyCheck_no_allowlist(stop_file, action_type) ==
    IF check_emergency_stop(stop_file) THEN "stop"
    ELSE IF action_type \in PASSTHROUGH THEN "passthrough"
    ELSE "go on"

\* The first two checks of validate_action, in the order of the code:
\* "stop" (emergency stop), "allowlist", "passthrough", or "go on".
EarlyCheck(stop_file, action_type) ==
    IF check_emergency_stop(stop_file) THEN "stop"
    ELSE IF action_type \notin ALLOWED_ACTIONS THEN "allowlist"
    ELSE IF action_type \in PASSTHROUGH THEN "passthrough"
    ELSE "go on"

validate_action(action, sensor, history, stop_file, now_, lim) ==
    LET capped == Flatten(action)
        action_type == Get(action.action, "")
        early == EarlyCheck(stop_file, action_type)
    IN  IF early = "stop"
        THEN ValidationResult(FALSE, "emergency_stop", capped)
        ELSE IF early = "allowlist"
        THEN ValidationResult(FALSE, "not_in_allowlist", capped)
        ELSE IF early = "passthrough"
        THEN ValidationResult(TRUE, "OK", capped)
        ELSE IF GlobalLimitReached(history, now_, lim)
        THEN ValidationResult(FALSE, "global_rate_limit", capped)
        ELSE IF action_type = "water"
        THEN _validate_water(capped, lim, history, now_, sensor)
        ELSE IF action_type \in {"heater_on", "heater_off"}
        THEN _validate_heater(capped, lim, sensor)
        ELSE IF action_type \in {"light_on", "light_off"}
        THEN _validate_light(capped, lim, now_)
        ELSE _validate_circulation(capped, lim, history, now_)

\* ------------------------------------------------------------------------
\* src/src/action_executor.py
\* ------------------------------------------------------------------------
NoCommand == [dev |-> "", op |-> "", sec |-> None]

Command(dev, op, sec) == [dev |-> dev, op |-> op, sec |-> sec]

\* What one bridge subprocess may do: exit with code 0, exit with another
\* code, exceed the timeout, not be startable because the executable is
\* not found, or fail with another OS error.
BridgeOutcomes == {"ok", "nonzero_exit", "timeout", "not_found", "os_error"}

\* What _run_farmctl makes of a bridge outcome: the pair (success,
\* output_or_error) it returns, or the exception that leaves it.
FarmctlReturn(success, text) == [raised |-> "", success |-> success, text |-> text]

FarmctlRaise(exception) == [raised |-> exception, success |-> FALSE, text |-> ""]

\* _run_farmctl whose last handler is missing.
_run_farmctl_no_oserror_handler(outcome) ==
    CASE outcome = "ok" -> FarmctlReturn(TRUE, "stdout")
      [] outcome = "nonzero_exit" -> FarmctlReturn(FALSE, "exited with code")
      [] outcome = "timeout" -> FarmctlReturn(FALSE, "timed out")
      [] outcome = "not_found" -> FarmctlReturn(FALSE, "not found")
      [] outcome = "os_error" -> FarmctlRaise("OSError")

_run_farmctl(outcome) ==
    CASE outcome = "ok" -> FarmctlReturn(TRUE, "stdout")
      [] outcome = "nonzero_exit" -> FarmctlReturn(FALSE, "exited with code")
      [] outcome = "timeout" -> FarmctlReturn(FALSE, "timed out")
      [] outcome = "not_found" -> FarmctlReturn(FALSE, "not found")
      [] outcome = "os_error" -> FarmctlReturn(FALSE, "OS error")

_NOOP_ACTIONS == {"do_nothing", "notify_human"}

ActuatorActions ==
    {"water", "light_on", "light_off", "heater_on", "heater_off", "circulation"}

\* _ACTION_MAP[action_name](params): the arguments handed to the bridge.
\* str(n) is kept as the number n: distinct numbers give distinct texts.
_ACTION_MAP(action_name, params) ==
    CASE action_name = "water" ->
             Command("pump", "on", Some(Get(params.duration_sec, DefaultWaterSec)))
      [] action_name = "light_on" -> Command("light", "on", None)
      [] action_name = "light_off" -> Command("light", "off", None)
      [] action_name = "heater_on" -> Command("heater", "on", None)
      [] action_name = "heater_off" -> Command("heater", "off", None)
      [] action_name = "circulation" ->
             Command("circulation", "on",
                     Some(Get(params.duration_sec, DefaultCirculationSec)))

\* The output and error texts are kept as their parts: output is the
\* sequence of the pieces the text is formatted from, << >> for the empty
\* text; error is the message, "" standing for None.
ExecutionResult(success, action_name, command, output, error, dry) ==
    [success |-> success, action |-> action_name, command |-> command,
     output |-> output, error |-> error, dry_run |-> dry]

NoResult == ExecutionResult(FALSE, "", NoCommand, << >>, "not executed", FALSE)

\* execute that takes every name outside _ACTION_MAP for a no-op.
execute_unknown_as_noop(action, dry, outcome) ==
    LET action_name == Get(action.action, "")
        params == action.params
        run == _run_farmctl(outcome)
    IN  IF action_name \notin ActuatorActions
        THEN ExecutionResult(TRUE, action_name, NoCommand,
                             << action_name, "no hardware command required" >>,
                             "", dry)
        ELSE IF dry
        THEN ExecutionResult(TRUE, action_name, _ACTION_MAP(action_name, params),
                             << "[DRY-RUN]", _ACTION_MAP(action_name, params) >>,
                             "", TRUE)
        ELSE ExecutionResult(run.success, action_name,
                             _ACTION_MAP(action_name, params),
                             IF run.success THEN << run.text >> ELSE << >>,
                             IF ~run.success THEN run.text ELSE "", FALSE)

\* ActionExecutor.execute(action) of an executor built with dry_run = dry;
\* outcome is what the bridge does if it is invoked.  The value is the
\* ExecutionResult returned; ExecuteRaises tells whether one is returned.
execute(action, dry, outcome) ==
    LET action_name == Get(action.action, "")
        params == action.params
        run == _run_farmctl(outcome)
    IN  IF action_name \in _NOOP_ACTIONS
        THEN ExecutionResult(TRUE, action_name, NoCommand,
                             << action_name, "no hardware command required" >>,
                             "", dry)
        ELSE IF action_name \notin ActuatorActions
        THEN ExecutionResult(FALSE, action_name, NoCommand, << >>,
                             "Unknown action", dry)
        ELSE IF dry
        THEN ExecutionResult(TRUE, action_name, _ACTION_MAP(action_name, params),
                             << "[DRY-RUN]", _ACTION_MAP(action_name, params) >>,
                             "", TRUE)
        ELSE ExecutionResult(run.success, action_name,
                             _ACTION_MAP(action_name, params),
                             IF run.success THEN << run.text >> ELSE << >>,
                             IF ~run.success THEN run.text ELSE "", FALSE)

\* The bridge invocations of an execute that skips the dry-run branch.
ExecuteInvokes_in_dry_run(action, dry) ==
    LET action_name == Get(action.action, "")
    IN  IF action_name \in ActuatorActions
        THEN << _ACTION_MAP(action_name, action.params) >>
        ELSE << >>

\* The bridge invocations execute(action) makes: one in live mode for an
\* actuator action, none otherwise.
ExecuteInvokes(action, dry) ==
    LET action_name == Get(action.action, "")
    IN  IF action_name \in ActuatorActions /\ ~dry
        THEN << _ACTION_MAP(action_name, action.params) >>
        ELSE << >>

\* The exception that leaves execute(action), "" when it returns: the only
\* call that can raise on an action dict is the bridge invocation.
ExecuteRaises(action, dry, outcome) ==
    IF ExecuteInvokes(action, dry) # << >> THEN _run_farmctl(outcome).raised
    ELSE ""

\* ActionExecutor.take_photo(output_path): the bridge invocations, the path
\* returned (None for Python's None) and the exception that leaves it.
take_photo(dry, outcome) ==
    IF dry
    THEN [cmds |-> << >>, photo_path |-> Some("output_path"), raised |-> ""]
    ELSE [cmds |-> << Command("camera-snap", "", None) >>,
          photo_path |-> IF _run_farmctl(outcome).success
                         THEN Some("output_path") ELSE None,
          raised |-> _run_farmctl(outcome).raised]

\* ------------------------------------------------------------------------
\* src/src/actuator_state.py
\* ------------------------------------------------------------------------
DEFAULT_STATE ==
    [light |-> "off", heater |-> "off", pump |-> "idle",
     circulation |-> "idle", water_tank |-> "ok", heater_lockout |-> "normal"]

\* update_after_action on the state load_actuator_state returned: the
\* state it saves, the state itself for a name outside _ACTION_STATE_MAP.
update_after_action(action_name, state) ==
    CASE action_name = "light_on" -> [state EXCEPT !.light = "on"]
      [] action_name = "light_off" -> [state EXCEPT !.light = "off"]
      [] action_name = "heater_on" -> [state EXCEPT !.heater = "on"]
      [] action_name = "heater_off" -> [state EXCEPT !.heater = "off"]
      [] action_name = "water" -> [state EXCEPT !.pump = "idle"]
      [] action_name = "circulation" -> [state EXCEPT !.circulation = "idle"]
      [] OTHER -> state

\* if sensor_data_dict.get(key) is not None: state[actuator] = yes if
\* sensor_data_dict[key] else no
Override(state, actuator, reported, yes, no) ==
    IF reported = None THEN state
    ELSE [state EXCEPT ![actuator] = IF reported = Some(TRUE) THEN yes ELSE no]

\* reconcile_actuator_state on the state load_actuator_state returned: the
\* state it saves and returns.
reconcile_actuator_state(sensor, state) ==
    LET s1 == Override(state, "light", sensor.light_on, "on", "off")
        s2 == Override(s1, "heater", sensor.heater_on, "on", "off")
        s3 == Override(s2, "pump", sensor.water_pump_on, "running", "idle")
        s4 == Override(s3, "circulation", sensor.circulation_on, "running", "idle")
        s5 == Override(s4, "water_tank", sensor.water_tank_ok, "ok", "low")
    IN  Override(s5, "heater_lockout", sensor.heater_lockout, "active", "normal")

\* --- the file actuator_state.json -------------------------------------------
\* What is found at the path of the state file: nothing, something that
\* cannot be opened, bytes that are not text, text that is not JSON, JSON
\* that is not an object, or a JSON object, kept as its set of
\* (key, value) members.
StateFile(members) == [kind |-> "json_object", members |-> members]

OtherFile(kind) == [kind |-> kind, members |-> {}]

\* json.dump(state, f): one member per key of the dict.
json_dump(state) == {<< k, state[k] >> : k \in DOMAIN state}

\* json.load(f) of the text of an object: the dict of its members.
json_load(members) ==
    [k \in {m[1] : m \in members} |->
        CHOOSE v \in {m[2] : m \in members} : << k, v >> \in members]

\* state.setdefault(key, default) for every key of DEFAULT_STATE
SetDefaults(state) ==
    [k \in DOMAIN state \cup DOMAIN DEFAULT_STATE |->
        IF k \in DOMAIN state THEN state[k] ELSE DEFAULT_STATE[k]]

\* load_actuator_state(data_dir): the state returned, or the exception
\* that leaves it.  The handler catches JSONDecodeError and OSError.
load_actuator_state(file) ==
    CASE file.kind = "missing" -> [raised |-> "", state |-> DEFAULT_STATE]
      [] file.kind = "unreadable" -> [raised |-> "", state |-> DEFAULT_STATE]
      [] file.kind = "not_json" -> [raised |-> "", state |-> DEFAULT_STATE]
      [] file.kind = "not_text" ->
             [raised |-> "UnicodeDecodeError", state |-> DEFAULT_STATE]
      [] file.kind = "json_not_object" ->
             [raised |-> "AttributeError", state |-> DEFAULT_STATE]
      [] file.kind = "json_object" ->
             [raised |-> "", state |-> SetDefaults(json_load(file.members))]

\* What an attempt to write the file may come to: done, refused at open,
\* or cut short after open has emptied the file.
WriteOutcomes == {"ok", "refused", "cut_short"}

\* _save_state(state, data_dir): the file afterwards; an OSError is logged
\* and goes no further.  The data directory exists.
_save_state(state, file, write) ==
    CASE write = "ok" -> StateFile(json_dump(state))
      [] write = "refused" -> file
      [] write = "cut_short" -> OtherFile("not_json")

\* The cached state as the next load_actuator_state returns it after
\* _save_state(state, data_dir) on a file that held old: a write refused
\* leaves the file, a write cut short leaves text that is no JSON, which
\* loads as the defaults.
Reloaded(state, old, write) ==
    CASE write = "ok" -> state
      [] write = "refused" -> old
      [] write = "cut_short" -> DEFAULT_STATE

\* update_after_action(action_name, data_dir) on the file: a name outside
\* _ACTION_STATE_MAP returns before the file is read.
_ACTION_STATE_MAP ==
    [light_on |-> << "light", "on" >>, light_off |-> << "light", "off" >>,
     heater_on |-> << "heater", "on" >>, heater_off |-> << "heater", "off" >>,
     water |-> << "pump", "idle" >>, circulation |-> << "circulation", "idle" >>]

update_after_action_on_disk(action_name, file, write) ==
    LET loaded == load_actuator_state(file)
    IN  IF action_name \notin DOMAIN _ACTION_STATE_MAP
        THEN [raised |-> "", file |-> file]
        ELSE IF loaded.raised # ""
        THEN [raised |-> loaded.raised, file |-> file]
        ELSE [raised |-> "",
              file |-> _save_state(update_after_action(action_name, loaded.state),
                                   file, write)]

\* reconcile_actuator_state(sensor_data_dict, data_dir) on the file: load,
\* override, save, return.
reconcile_actuator_state_on_disk(sensor, file, write) ==
    LET loaded == load_actuator_state(file)
        state == reconcile_actuator_state(sensor, loaded.state)
    IN  IF loaded.raised # ""
        THEN [raised |-> loaded.raised, state |-> loaded.state, file |-> file]
        ELSE [raised |-> "", state |-> state,
              file |-> _save_state(state, file, write)]

\* ------------------------------------------------------------------------
\* src/src/sensor_reader.py
\* ------------------------------------------------------------------------
\* _soil_adc_to_pct works on floats; here a percentage is kept in
\* thousandths of a percent and a factor of the exponential in
\* ten-thousandths, each product rounded to the nearest unit.  Over the
\* codes of the 10-bit converter the result is within 0.015 % of
\* math.exp(SOIL_CAL_LOG_SLOPE * adc + SOIL_CAL_LOG_INTERCEPT).
PctScale == 1000

FactorScale == 10000

\* The codes of the bridge's 10-bit analog-to-digital converter.
AdcBits == 10

AdcCodes == 0..(2^AdcBits - 1)

SOIL_CAL_ADC_MIN == 390

SOIL_CAL_ADC_MAX == 822

\* exp(SOIL_CAL_LOG_INTERCEPT) = exp(4.91733458), in thousandths.
ExpIntercept == 136638

\* exp(SOIL_CAL_LOG_SLOPE * 2^(k-1)) = exp(-0.00258653 * 2^(k-1)) for
\* k = 1..10, in ten-thousandths.
ExpSlopeTimesPowerOfTwo ==
    << 9974, 9948, 9897, 9795, 9595, 9206, 8474, 7182, 5157, 2660 >>

\* exp(slope * adc + intercept) = exp(intercept) times the factors of the
\* binary digits of adc that are set.
RECURSIVE ExpFrom(_, _, _)
ExpFrom(value, adc, k) ==
    IF k > AdcBits THEN value
    ELSE ExpFrom(IF (adc \div 2^(k - 1)) % 2 = 1
                 THEN (value * ExpSlopeTimesPowerOfTwo[k] + FactorScale \div 2)
                          \div FactorScale
                 ELSE value,
                 adc, k + 1)

\* pct = math.exp(...); return max(0.0, min(100.0, pct)), in thousandths.
_soil_adc_to_pct(adc) ==
    LET pct == ExpFrom(ExpIntercept, adc, 1)
        capped == IF pct < 100 * PctScale THEN pct ELSE 100 * PctScale
    IN  IF capped > 0 THEN capped ELSE 0

\* What one "status --json" subprocess may do: print a complete reading and
\* exit 0; exit with another code; exit 0 with nothing on stdout, with text
\* that is not JSON, with an object that lacks sensor fields (what the
\* bridge prints when the serial line held no reading), with fields that
\* are no numbers; exceed the timeout; fail to start.
AttemptOutcomes ==
    {"ok", "nonzero_exit", "empty_output", "not_json", "missing_fields",
     "invalid_types", "timeout", "os_error"}

\* One pass through the try block of read_sensors: the reading returned,
\* or the SensorReadError kept in last_error by the handler that caught
\* the failure.  Every failure has a handler; none ends the loop.
AttemptReturn(reading) == [ok |-> TRUE, reading |-> reading, error |-> "None"]

AttemptError(error) == [ok |-> FALSE, reading |-> None, error |-> error]

Attempt(outcome, reading) ==
    CASE outcome = "ok" -> AttemptReturn(Some(reading))
      [] outcome = "nonzero_exit" -> AttemptError("exited with code")
      [] outcome = "empty_output" -> AttemptError("returned empty output")
      [] outcome = "not_json" -> AttemptError("Failed to parse JSON output")
      [] outcome = "missing_fields" -> AttemptError("Missing sensor fields")
      [] outcome = "invalid_types" -> AttemptError("Invalid sensor data types")
      [] outcome = "timeout" -> AttemptError("timed out")
      [] outcome = "os_error" -> AttemptError("OS error")

\* for attempt in range(1, attempts): one pass too few.
MoreAttempts_one_short(made, attempts) == made + 1 < attempts

\* for attempt in range(1, attempts + 1): whether the loop has a pass left
\* after made passes.
MoreAttempts(made, attempts) == made < attempts

\* raise SensorReadError(f"All {attempts} sensor read attempts failed.
\* Last error: {last_error}")
SensorReadError(attempts, last_error) ==
    [exception |-> "SensorReadError", attempts |-> attempts,
     last_error |-> last_error]

\* ------------------------------------------------------------------------
\* src/src/logger.py and the log writer of src/bot/handlers.py
\* ------------------------------------------------------------------------
\* A writer that takes an accepted action for an executed one.
log_decision_executed_when_valid(now_, single, val, executed) ==
    [timestamp |-> now_, fmt |-> "agent", action |-> Get(single.action, ""),
     params |-> single.params, valid |-> val.valid, executed |-> val.valid]

\* One line of decisions.jsonl written by logger.log_decision: the proposed
\* action (its name and params) under "decision", the validation outcome,
\* the executed flag.
log_decision(now_, single, val, executed) ==
    [timestamp |-> now_, fmt |-> "agent", action |-> Get(single.action, ""),
     params |-> single.params, valid |-> val.valid, executed |-> executed]

\* One line of decisions.jsonl written by handlers._log_decision: the
\* action name at the top level, no "decision" key, "success" for executed.
_log_decision(now_, action_name, success) ==
    [timestamp |-> now_, fmt |-> "manual", action |-> action_name,
     valid |-> TRUE, executed |-> success]

\* _append_jsonl(filepath, record): open(filepath, "a") and one write, with
\* no handler around them.  The records of the file afterwards as
\* _read_jsonl returns them (a line cut short fails to parse and is
\* skipped), and the exception that leaves the function.
_append_jsonl(records, record, write) ==
    CASE write = "ok" -> [raised |-> "", records |-> Append(records, record)]
      [] write = "refused" -> [raised |-> "OSError", records |-> records]
      [] write = "cut_short" -> [raised |-> "OSError", records |-> records]

\* records[-n:]
load_recent_decisions(n, records) ==
    IF Len(records) <= n THEN records
    ELSE SubSeq(records, Len(records) - n + 1, Len(records))

\* ------------------------------------------------------------------------
\* Inputs
\* ------------------------------------------------------------------------
\* An action dict: "action" and the "duration_sec" keys may be absent;
\* an absent "params" reads as the empty dict everywhere it is used.
Action(name, params_sec, top_sec) ==
    [action |-> name, params |-> [duration_sec |-> params_sec],
     duration_sec |-> top_sec, capped |-> FALSE]

NoAction == Action(None, None, None)

\* The content of config/safety_limits.yaml as load_safety_limits returns
\* it: duration caps, interval, temperature and light schedule as shipped
\* in the built-in defaults; the two count ceilings are configured low
\* enough for a log of MaxLog records to reach them.
load_safety_limits ==
    [water |-> [max_duration_sec |-> 30, min_interval_min |-> 60,
                daily_max_count |-> 2],
     heater |-> [max_temp_c |-> 30],
     light |-> [schedule_on |-> TimeText(6 * 60),
               schedule_off |-> TimeText(MinutesPerDay)],
     circulation |-> [max_duration_sec |-> 3600],
     max_actions_per_hour |-> 2]

SensorData(temp, soil, tank, lockout, relays) ==
    [temperature_c |-> temp, soil_moisture_pct |-> soil,
     water_tank_ok |-> tank, heater_lockout |-> lockout,
     light_on |-> relays, heater_on |-> relays,
     water_pump_on |-> relays, circulation_on |-> relays]

\* read_sensors_mock(): the fixed mid-range reading (24.5 C and 45 % are
\* kept as the whole numbers 24 and 45).
read_sensors_mock == SensorData(24, 45, Some(TRUE), Some(FALSE), Some(FALSE))

\* Readings the bridge can report: a normal one from current firmware and
\* a dry pot from firmware that reports no relay state.
Readings ==
    {read_sensors_mock,
     SensorData(22, 20, None, None, None)}

\* Actions the reasoning service may put in a decision (untrusted).
ProposedActions ==
    {Action(Some("water"), Some(600), None),
     Action(Some("do_nothing"), None, None),
     Action(Some("explode"), None, None)}

SeqsUpTo(S, n) == UNION {[1..k -> S] : k \in 0..n}

Min(a, b) == IF a <= b THEN a ELSE b

\* Pending actions the manual commands store (water_command,
\* light_command, heater_command, circulation_command).
ManualActions ==
    {Action(Some("water"), Some(30), None)}

\* ------------------------------------------------------------------------
\* src/src/plant_agent.py
\* ------------------------------------------------------------------------
\* The rules looked through with the two temperature rules ahead of the
\* soil rule.
FALLBACK_RULES_temperature_first(sensor) ==
    IF sensor.temperature_c < 15
    THEN << Action(Some("heater_on"), None, None) >>
    ELSE IF sensor.temperature_c > 32
    THEN << Action(Some("heater_off"), None, None) >>
    ELSE IF sensor.soil_moisture_pct < 25
    THEN << Action(Some("water"), Some(5), None) >>
    ELSE << >>

\* FALLBACK_RULES as _apply_fallback_rules walks it (a dict keeps insertion
\* order): the action of the first rule whose condition holds, or nothing.
FALLBACK_RULES(sensor) ==
    IF sensor.soil_moisture_pct < 25
    THEN << Action(Some("water"), Some(5), None) >>
    ELSE IF sensor.temperature_c < 15
    THEN << Action(Some("heater_on"), None, None) >>
    ELSE IF sensor.temperature_c > 32
    THEN << Action(Some("heater_off"), None, None) >>
    ELSE << >>

\* The action list run_check hands to execute_validated_actions when the
\* reasoning service failed: the first matching rule, else one do_nothing.
_apply_fallback_rules(sensor) ==
    IF FALLBACK_RULES(sensor) # << >> THEN FALLBACK_RULES(sensor)
    ELSE << Action(Some("do_nothing"), None, None) >>

\* What get_plant_decision does in step 5: it returns the decision of the
\* reasoning service or raises (connection, rate limit, unparsable reply);
\* the text of the exception is kept as a tag.
ServiceReply(reply_actions) == [failed |-> FALSE, error |-> "", actions |-> reply_actions]

ServiceFailure(error) == [failed |-> TRUE, error |-> error, actions |-> << >>]

\* A decision dict: the action list, the notify_human flag, and the reason
\* of its first action as the message and the text embedded in it.
Decision(decision_actions, notify_human, reason) ==
    [actions |-> decision_actions, notify_human |-> notify_human, reason |-> reason]

\* Step 5 of run_check: the reply of the service, or on any Exception the
\* decision of _apply_fallback_rules, or when that is None a single
\* do_nothing flagged for the human with the error text in its reason.
decide(sensor, reply) ==
    IF ~reply.failed THEN Decision(reply.actions, FALSE, << "service" >>)
    ELSE IF FALLBACK_RULES(sensor) # << >>
    THEN Decision(FALLBACK_RULES(sensor), TRUE, << "Offline fallback" >>)
    ELSE Decision(<< Action(Some("do_nothing"), None, None) >>, TRUE,
                  << "API unreachable, no fallback triggered", reply.error >>)

\* The decision of a cycle: the list the reasoning service returned or,
\* when the request failed, the list of the fallback rules.
Decisions(reading, n) ==
    SeqsUpTo(ProposedActions, n) \cup {_apply_fallback_rules(reading)}

\* How the photograph step of a cycle goes: skipped, or run with each of
\* its three bridge invocations succeeding or failing.
PhotoRuns ==
    {[include_photo |-> FALSE, on_ok |-> TRUE, snap_ok |-> TRUE, off_ok |-> TRUE]}
    \cup [include_photo : {TRUE}, on_ok : BOOLEAN, snap_ok : BOOLEAN,
          off_ok : BOOLEAN]

\* single = {"action": act.get("action", "do_nothing"),
\*           "params": act.get("params", {}), ...}
Single(act) ==
    [action |-> Some(Get(act.action, "do_nothing")), params |-> act.params,
     duration_sec |-> None, capped |-> FALSE]

\* The loop without its rejection branch.
Rejected_never(val) == FALSE

\* if not validation.valid: ... continue
Rejected(val) == ~val.valid

\* A loop that leaves at the first rejection (break where the code has
\* continue).
Rest_break_on_rejection(acts, val) == IF ~val.valid THEN << >> ELSE Tail(acts)

\* for act in actions: after an iteration, rejected (continue) or not, the
\* loop goes on with the actions behind the one just processed.
Rest(acts, val) == Tail(acts)

\* A loop that reads decisions.jsonl again before each validation.
Snapshot_reloaded(snapshot, log) == load_recent_decisions(HistoryN, log)

\* validate_action(single, sensor_data, history): the history handed to
\* every validation of the loop is the parameter history, the list run_check
\* loaded before the loop, whatever the log holds by now.
Snapshot(snapshot, log) == snapshot

\* One bridge invocation as the bridge sees it, with what held when it was
\* made: the handler that made it, whether the stop file existed, and
\* whether validate_action had returned valid for the action behind it.
Call(cmd, origin, stopped, validated) ==
    [cmd |-> cmd, origin |-> origin, stop |-> stopped, validated |-> validated]

\* take_photo_with_light that gives up when the light cannot be switched on.
take_photo_with_light_gives_up(dry, update_state, state, on_ok, snap_ok, off_ok) ==
    IF dry \/ on_ok
    THEN LET s1 == IF ~dry /\ update_state
                   THEN update_after_action("light_on", state) ELSE state
             s2 == IF ~dry /\ off_ok /\ update_state
                   THEN update_after_action("light_off", s1) ELSE s1
         IN  [cmds |-> IF dry THEN << >>
                       ELSE << Command("light", "on", None),
                               Command("camera-snap", "", None),
                               Command("light", "off", None) >>,
              state |-> s2,
              photo |-> dry \/ snap_ok]
    ELSE [cmds |-> << Command("light", "on", None) >>, state |-> state,
          photo |-> FALSE]

\* ActionExecutor.take_photo_with_light of an executor built with
\* dry_run = dry: light on, settle, camera-snap, light off.
take_photo_with_light(dry, update_state, state, on_ok, snap_ok, off_ok) ==
    LET s1 == IF ~dry /\ on_ok /\ update_state
              THEN update_after_action("light_on", state) ELSE state
        s2 == IF ~dry /\ off_ok /\ update_state
              THEN update_after_action("light_off", s1) ELSE s1
    IN  [cmds |-> IF dry THEN << >>
                  ELSE << Command("light", "on", None),
                          Command("camera-snap", "", None),
                          Command("light", "off", None) >>,
         state |-> s2,
         photo |-> dry \/ snap_ok]

NoValidation == ValidationResult(FALSE, "none", NoAction)

\* run_check's summary as it is initialised: the keys that the cycle fills
\* in, None until it does.  It is also what a step that returns no summary
\* leaves in the variable summary.
NoSummary ==
    [sensor_data |-> None, decision |-> None, actions_taken |-> << >>,
     executed |-> FALSE, photo_path |-> None, error |-> None]

\* The summary returned when read_sensors raised SensorReadError.
SensorFailureSummary == [NoSummary EXCEPT !.error = Some("Sensor read failed")]

\* The summary returned at the end of a cycle; the decision dict is kept
\* as a token.
Summary(reading, taken) ==
    [NoSummary EXCEPT !.sensor_data = Some(reading),
                      !.decision = Some("decision"),
                      !.actions_taken = taken,
                      !.executed = \E i \in 1..Len(taken) : taken[i].executed]

\* The value of given and returned where no function is applied on its own.
Nothing == [kind |-> "nothing"]

VARIABLES
    stop_file,       \* the emergency-stop file exists
    now,             \* wall clock, minutes
    limits,          \* the safety limits configuration
    agent_mode,      \* bot_data["agent_mode"]
    pending_action,  \* user_data["pending_action"], None when absent
    decisions,       \* decisions.jsonl
    actuator_state,  \* actuator_state.json
    pc,              \* "idle", or "acting" inside execute_validated_actions
    actions,         \* the proposed actions still to process
    history,         \* the history snapshot of the cycle
    sensor_data,     \* the reading of the cycle
    dry_run,         \* the dry_run argument of the cycle
    actions_taken,   \* the outcomes collected by the cycle so far
    single,          \* the action handed to validate_action by the last step
    validation,      \* the ValidationResult of the last step
    replayed,        \* the verdict of validating the same inputs again
    result,          \* the ExecutionResult of the last step
    calls,           \* the bridge invocations of the last step
    summary,         \* the summary run_check returned in the last step
    handler_error,   \* the exception the last step ended with
    step,            \* the last step
    given,           \* what a function applied on its own is applied to
    returned         \* what a function applied on its own returned

vars ==
    << stop_file, now, limits, agent_mode, pending_action, decisions,
       actuator_state, pc, actions, history, sensor_data, dry_run,
       actions_taken, single, validation, replayed, result, calls, summary,
       handler_error, step, given, returned >>

env_vars == << stop_file, now, limits >>

bot_vars == << agent_mode, pending_action >>

cycle_vars == << pc, actions, history, sensor_data, dry_run, actions_taken >>

\* What a step that validates nothing, executes nothing and returns
\* nothing leaves in the observation variables.
Quiet(name) ==
    /\ single' = NoAction
    /\ validation' = NoValidation
    /\ replayed' = NoValidation
    /\ result' = NoResult
    /\ calls' = << >>
    /\ summary' = NoSummary
    /\ handler_error' = ""
    /\ step' = name

Init ==
    /\ stop_file = FALSE
    /\ now = StartOfRun
    /\ limits = load_safety_limits
    /\ agent_mode \in {"dry-run", "live"}
    /\ pending_action = None
    /\ decisions = << >>
    /\ actuator_state = DEFAULT_STATE
    /\ pc = "idle"
    /\ actions = << >>
    /\ history = << >>
    /\ sensor_data = read_sensors_mock
    /\ dry_run = TRUE
    /\ actions_taken = << >>
    /\ single = NoAction
    /\ validation = NoValidation
    /\ replayed = NoValidation
    /\ result = NoResult
    /\ calls = << >>
    /\ summary = NoSummary
    /\ handler_error = ""
    /\ step = "init"
    /\ given = Nothing
    /\ returned = Nothing

\* --- the environment ------------------------------------------------------
\* The operator creates the emergency-stop file.
RaiseStop ==
    /\ ~stop_file
    /\ stop_file' = TRUE
    /\ Quiet("quiet")
    /\ UNCHANGED << given, returned, now, limits, bot_vars, decisions, actuator_state, cycle_vars >>

\* The operator removes the emergency-stop file.
ClearStop ==
    /\ stop_file
    /\ stop_file' = FALSE
    /\ Quiet("quiet")
    /\ UNCHANGED << given, returned, now, limits, bot_vars, decisions, actuator_state, cycle_vars >>

\* An hour passes between two handler runs.
Tick ==
    /\ pc = "idle"
    /\ now < StartOfRun + MaxTicks * TickMin
    /\ now' = now + TickMin
    /\ Quiet("quiet")
    /\ UNCHANGED << given, returned, stop_file, limits, bot_vars, decisions, actuator_state,
                    cycle_vars >>

\* --- run_check -------------------------------------------------------------
\* Step 1 fails and the failure is answered with the mock reading: the
\* cycle goes on as if the sensors had been read.
CycleSensorFail_carries_on ==
    /\ pc = "idle"
    /\ Len(decisions) < MaxLog
    /\ \E proposed \in Decisions(read_sensors_mock,
                                 Min(MaxActions, MaxLog - Len(decisions))) :
        actions' = proposed
    /\ sensor_data' = read_sensors_mock
    /\ dry_run' = (agent_mode # "live")
    /\ history' = load_recent_decisions(HistoryN, decisions)
    /\ actuator_state' = reconcile_actuator_state(read_sensors_mock, actuator_state)
    /\ pc' = "acting"
    /\ actions_taken' = << >>
    /\ single' = NoAction
    /\ validation' = NoValidation
    /\ replayed' = NoValidation
    /\ result' = NoResult
    /\ calls' = << >>
    /\ summary' = SensorFailureSummary
    /\ handler_error' = ""
    /\ step' = "sensor_fail"
    /\ UNCHANGED << given, returned, env_vars, bot_vars, decisions >>

\* Step 1 fails: read_sensors raised SensorReadError after its last
\* attempt; run_check puts the message under "error" and returns the
\* summary.
CycleSensorFail ==
    /\ pc = "idle"
    /\ single' = NoAction
    /\ validation' = NoValidation
    /\ replayed' = NoValidation
    /\ result' = NoResult
    /\ calls' = << >>
    /\ summary' = SensorFailureSummary
    /\ handler_error' = ""
    /\ step' = "sensor_fail"
    /\ UNCHANGED << given, returned, env_vars, bot_vars, decisions,
                    actuator_state, cycle_vars >>

\* Steps 0 to 5 and the set-up of step 6: sensors, the optional photograph
\* with illumination, the history snapshot, reconciliation, the decision.
StartCycle ==
    /\ pc = "idle"
    /\ Len(decisions) < MaxLog
    /\ \E reading \in Readings, photo_run \in PhotoRuns :
        \E proposed \in Decisions(reading, Min(MaxActions, MaxLog - Len(decisions))) :
        LET dry == agent_mode # "live"
            photo == take_photo_with_light(FALSE, ~dry, actuator_state,
                         photo_run.on_ok, photo_run.snap_ok, photo_run.off_ok)
            state1 == IF photo_run.include_photo THEN photo.state
                      ELSE actuator_state
        IN  /\ sensor_data' = reading
            /\ dry_run' = dry
            /\ calls' = IF photo_run.include_photo
                        THEN [i \in 1..Len(photo.cmds) |->
                                 Call(photo.cmds[i], "photo", stop_file, FALSE)]
                        ELSE << >>
            /\ history' = load_recent_decisions(HistoryN, decisions)
            /\ actuator_state' = reconcile_actuator_state(reading, state1)
            /\ actions' = proposed
    /\ pc' = "acting"
    /\ actions_taken' = << >>
    /\ single' = NoAction
    /\ validation' = NoValidation
    /\ replayed' = NoValidation
    /\ result' = NoResult
    /\ summary' = NoSummary
    /\ handler_error' = ""
    /\ step' = "cycle_start"
    /\ UNCHANGED << given, returned, env_vars, bot_vars, decisions >>

\* One iteration of the loop of execute_validated_actions, with what the
\* write of the actuator-state cache and the append to the decision log
\* come to.  The cache is written before the log (update_after_action,
\* then log_decision); an OSError of the append is caught neither here nor
\* in run_check, so it ends the loop and the cycle with no summary.
Iteration(log_write, state_write) ==
    /\ \E outcome \in BridgeOutcomes :
        LET sgl == Single(Head(actions))
            val == validate_action(sgl, sensor_data, Snapshot(history, decisions),
                                   stop_file, now, limits)
            final_action == val.capped_action
            name == Get(final_action.action, "")
            runs == ~Rejected(val) /\ name \notin PASSTHROUGH
            res == IF runs THEN execute(final_action, dry_run, outcome) ELSE NoResult
            executed == IF Rejected(val) THEN FALSE
                        ELSE IF runs THEN res.success ELSE TRUE
            cmds == IF runs THEN ExecuteInvokes(final_action, dry_run) ELSE << >>
            updates == runs /\ res.success /\ ~dry_run
            appended == _append_jsonl(decisions,
                                      log_decision(now, sgl, val, executed),
                                      log_write)
        IN  /\ cmds # << >> \/ outcome = "ok"
            /\ updates \/ state_write = "ok"
            /\ single' = sgl
            /\ validation' = val
            /\ result' = res
            /\ calls' = [i \in 1..Len(cmds) |->
                            Call(cmds[i], "cycle", stop_file, val.valid)]
            /\ actuator_state' =
                   IF updates
                   THEN Reloaded(update_after_action(name, actuator_state),
                                 actuator_state, state_write)
                   ELSE actuator_state
            /\ decisions' = appended.records
            /\ handler_error' = appended.raised
            /\ IF appended.raised = ""
               THEN /\ actions_taken' = Append(actions_taken,
                           [action |-> IF Rejected(val) THEN Get(sgl.action, "")
                                       ELSE name,
                            executed |-> executed,
                            safety_reason |-> IF Rejected(val) THEN val.reason
                                              ELSE ""])
                    /\ actions' = Rest(actions, val)
                    /\ step' = "iteration"
                    /\ UNCHANGED << pc, history, sensor_data, dry_run >>
               ELSE /\ actions_taken' = << >>
                    /\ actions' = << >>
                    /\ step' = "aborted"
                    /\ pc' = "idle"
                    /\ history' = << >>
                    /\ sensor_data' = read_sensors_mock
                    /\ dry_run' = TRUE
    /\ replayed' = NoValidation
    /\ summary' = NoSummary
    /\ UNCHANGED << given, returned, env_vars, bot_vars >>

\* One iteration of the loop of execute_validated_actions on a data
\* directory that takes every write.
ProcessAction ==
    /\ pc = "acting"
    /\ actions # << >>
    /\ Iteration("ok", "ok")

\* The loop is over: run_check returns its summary.
FinishCycle ==
    /\ pc = "acting"
    /\ actions = << >>
    /\ pc' = "idle"
    /\ history' = << >>
    /\ sensor_data' = read_sensors_mock
    /\ dry_run' = TRUE
    /\ actions_taken' = << >>
    /\ single' = NoAction
    /\ validation' = NoValidation
    /\ replayed' = NoValidation
    /\ result' = NoResult
    /\ calls' = << >>
    /\ summary' = Summary(sensor_data, actions_taken)
    /\ handler_error' = ""
    /\ step' = "cycle_end"
    /\ UNCHANGED << given, returned, env_vars, bot_vars, decisions, actuator_state, actions >>

\* --- src/bot/handlers.py ---------------------------------------------------
\* water_command, light_command, heater_command, circulation_command
ManualCommand ==
    /\ pc = "idle"
    /\ \E a \in ManualActions : pending_action' = Some(a)
    /\ Quiet("quiet")
    /\ UNCHANGED << given, returned, env_vars, agent_mode, decisions, actuator_state, cycle_vars >>

\* confirm_callback, "cancel:"
Cancel ==
    /\ pc = "idle"
    /\ pending_action # None
    /\ pending_action' = None
    /\ Quiet("quiet")
    /\ UNCHANGED << given, returned, env_vars, agent_mode, decisions, actuator_state, cycle_vars >>

\* confirm_callback, "confirm:" and _execute_pending_action
Confirm ==
    /\ pc = "idle"
    /\ pending_action # None
    /\ Len(decisions) < MaxLog
    /\ \E outcome \in BridgeOutcomes :
        LET pending == Get(pending_action, NoAction)
            dry == agent_mode # "live"
            res == execute(pending, dry, outcome)
            cmds == ExecuteInvokes(pending, dry)
        IN  /\ cmds # << >> \/ outcome = "ok"
            /\ result' = res
            /\ calls' = [i \in 1..Len(cmds) |->
                            Call(cmds[i], "manual", stop_file, FALSE)]
            /\ decisions' = Append(decisions,
                                   _log_decision(now, res.action, res.success))
    /\ pending_action' = None
    /\ single' = NoAction
    /\ validation' = NoValidation
    /\ replayed' = NoValidation
    /\ summary' = NoSummary
    /\ handler_error' = ""
    /\ step' = "confirm"
    /\ UNCHANGED << given, returned, env_vars, agent_mode, actuator_state, cycle_vars >>

\* mode_command
ModeCommand ==
    /\ pc = "idle"
    /\ \E m \in {"dry-run", "live"} : m # agent_mode /\ agent_mode' = m
    /\ Quiet("quiet")
    /\ UNCHANGED << given, returned, env_vars, pending_action, decisions, actuator_state,
                    cycle_vars >>

\* chat_message_handler: the reply of the reasoning service carries the
\* action list chat_actions.  The handler calls validate_action with the
\* action dict alone; validate_action has three required parameters, so the
\* call raises TypeError on the first action and the handler ends there,
\* before any action reaches the executor.
ChatMessage ==
    /\ pc = "idle"
    /\ \E chat_actions \in SeqsUpTo(ProposedActions, 1) :
        handler_error' = IF chat_actions # << >> THEN "TypeError" ELSE ""
    /\ single' = NoAction
    /\ validation' = NoValidation
    /\ replayed' = NoValidation
    /\ result' = NoResult
    /\ calls' = << >>
    /\ summary' = NoSummary
    /\ step' = "chat"
    /\ UNCHANGED << given, returned, env_vars, bot_vars, decisions, actuator_state, cycle_vars >>

Next ==
    \/ RaiseStop
    \/ ClearStop
    \/ Tick
    \/ CycleSensorFail
    \/ StartCycle
    \/ ProcessAction
    \/ FinishCycle
    \/ ManualCommand
    \/ Cancel
    \/ Confirm
    \/ ModeCommand
    \/ ChatMessage

Spec == Init /\ [][Next]_vars

\* plant_agent.py main, --once: the agent started by cron, one cycle per run,
\* with no bot process beside it.  The mode is fixed by the environment of
\* the job (AGENT_MODE / --dry-run), so only the cycle, the clock and the
\* operator's stop file move.
CronNext ==
    \/ RaiseStop
    \/ ClearStop
    \/ Tick
    \/ CycleSensorFail
    \/ StartCycle
    \/ ProcessAction
    \/ FinishCycle

CronSpec == Init /\ [][CronNext]_vars

\* ------------------------------------------------------------------------
\* validate_action on its own: the inputs are drawn from bounded sets, the
\* function is applied to them, and applied again to the same inputs.
\* ------------------------------------------------------------------------
\* Action dicts handed to validate_action: duration at the top level (the
\* form of the tests), inside params (the form of the reasoning service),
\* absent, zero, above the cap; names inside and outside the allowlist,
\* the empty name and no name at all.
ValidatorActions ==
    {Action(Some("water"), None, Some(5)),
     Action(Some("water"), Some(5), None),
     Action(Some("water"), Some(600), None),
     Action(Some("water"), None, Some(0)),
     Action(Some("water"), None, None),
     Action(Some("water"), None, Some(600)),
     Action(Some("water"), Some(30), None),
     Action(Some("water"), None, Some(0 - 5)),
     Action(Some("circulation"), Some(4000), None),
     Action(Some("circulation"), None, Some(3600)),
     Action(Some("circulation"), Some(0), None),
     Action(Some("circulation"), None, None),
     Action(Some("light_on"), None, None),
     Action(Some("light_off"), None, None),
     Action(Some("heater_on"), None, None),
     Action(Some("heater_off"), None, None),
     Action(Some("do_nothing"), None, None),
     Action(Some("notify_human"), None, None),
     Action(Some("explode"), None, None),
     Action(Some(""), None, None),
     Action(None, None, None)}

\* Readings on each side of the heater's temperature limit and on the
\* limit itself, with the tank and the lockout reported true, false or not
\* at all.
ValidatorReadings ==
    Readings \cup {SensorData(31, 20, Some(FALSE), Some(TRUE), Some(FALSE)),
                   SensorData(30, 45, Some(TRUE), Some(FALSE), Some(FALSE)),
                   SensorData(24, 45, Some(TRUE), Some(TRUE), Some(FALSE)),
                   SensorData(31, 45, Some(FALSE), None, Some(FALSE))}

\* Light schedules an operator may configure besides the shipped one: a
\* latest-off time that is a real time of day.
LightSchedules ==
    {[schedule_on |-> TimeText(6 * 60), schedule_off |-> TimeText(off)] :
        off \in {MinutesPerDay, 14 * 60, 14 * 60 + 1, 10 * 60}}

\* The limits a validation runs under: the light schedule matters to a
\* light_on request only, so it varies for that request alone.
ValidatorLimits(action) ==
    IF action.action = Some("light_on")
    THEN {[load_safety_limits EXCEPT !.light = s] : s \in LightSchedules}
    ELSE {load_safety_limits}

\* Half past midnight and noon.
ValidatorNows == {MinutesPerDay + 30, MinutesPerDay + 12 * 60}

\* Ages of history records: on the edge of the trailing hour and one
\* minute beyond it.
RecordAges == {HourWindowMin, HourWindowMin + 1}

\* Records the two log writers leave in decisions.jsonl.
LogRecords(t) ==
    UNION {
        {log_decision(t - age, Action(Some("water"), Some(5), None),
                      ValidationResult(TRUE, "OK", NoAction), TRUE),
         log_decision(t - age, Action(Some("water"), Some(5), None),
                      ValidationResult(FALSE, "tank_low", NoAction), FALSE),
         log_decision(t - age, Action(Some("do_nothing"), None, None),
                      ValidationResult(TRUE, "OK", NoAction), TRUE),
         log_decision(t - age, Action(Some("circulation"), Some(30), None),
                      ValidationResult(TRUE, "OK", NoAction), TRUE),
         log_decision(t - age, Action(Some("explode"), None, None),
                      ValidationResult(FALSE, "not_in_allowlist", NoAction), FALSE),
         _log_decision(t - age, "water", TRUE)} : age \in RecordAges}

\* The log is append-only and its timestamps never decrease.
Histories(t) ==
    {h \in SeqsUpTo(LogRecords(t), MaxHist) :
        \A i \in 1..Len(h) - 1 : h[i].timestamp <= h[i + 1].timestamp}

ValidatorInit ==
    /\ stop_file \in BOOLEAN
    /\ now \in ValidatorNows
    /\ single \in ValidatorActions
    /\ limits \in ValidatorLimits(single)
    /\ sensor_data \in ValidatorReadings
    /\ history \in Histories(now)
    /\ agent_mode = "dry-run"
    /\ pending_action = None
    /\ decisions = << >>
    /\ actuator_state = DEFAULT_STATE
    /\ pc = "idle"
    /\ actions = << >>
    /\ dry_run = TRUE
    /\ actions_taken = << >>
    /\ validation = NoValidation
    /\ replayed = NoValidation
    /\ result = NoResult
    /\ calls = << >>
    /\ summary = NoSummary
    /\ handler_error = ""
    /\ step = "input"
    /\ given = Nothing
    /\ returned = Nothing

\* validation = validate_action(action, sensor_data, history)
Validate ==
    /\ step = "input"
    /\ validation' = validate_action(single, sensor_data, history, stop_file,
                                     now, limits)
    /\ step' = "validated"
    /\ UNCHANGED << given, returned, env_vars, bot_vars, decisions, actuator_state, cycle_vars,
                    single, replayed, result, calls, summary, handler_error >>

\* The same call once more: validate_action works on a copy of the action
\* and reads the history without changing it.
Revalidate ==
    /\ step = "validated"
    /\ replayed' = validate_action(single, sensor_data, history, stop_file,
                                   now, limits)
    /\ step' = "replayed"
    /\ UNCHANGED << given, returned, env_vars, bot_vars, decisions, actuator_state, cycle_vars,
                    single, validation, result, calls, summary, handler_error >>

ValidatorNext ==
    \/ Validate
    \/ Revalidate

ValidatorSpec == ValidatorInit /\ [][ValidatorNext]_vars

\* ------------------------------------------------------------------------
\* ActionExecutor on its own: an executor is built in either mode, handed
\* an action dict or asked for a photograph, and the bridge does at each
\* invocation what the environment has in store for it.
\* ------------------------------------------------------------------------
\* Action dicts handed to execute: the six actuator kinds with and without
\* a duration, the two no-ops, a name outside the map, the empty name and
\* no name at all.
ExecutorActions ==
    {Action(Some("water"), Some(8), None),
     Action(Some("water"), None, None),
     Action(Some("circulation"), Some(4000), None),
     Action(Some("circulation"), None, None),
     Action(Some("light_on"), None, None),
     Action(Some("light_off"), None, None),
     Action(Some("heater_on"), None, None),
     Action(Some("heater_off"), None, None),
     Action(Some("do_nothing"), None, None),
     Action(Some("notify_human"), None, None),
     Action(Some("explode"), None, None),
     Action(Some(""), None, None),
     Action(None, None, None)}

\* The environment of one executor call: what the bridge does at its
\* first, second and third invocation, whether the caller passes data_dir,
\* and what the cached actuator state says of the light.
ExecutorEnvironments ==
    [kind : {"executor"},
     outcomes : [1..3 -> BridgeOutcomes],
     data_dir : BOOLEAN,
     cached_light : {"on", "off"}]

ExecutorInit ==
    /\ single \in ExecutorActions
    /\ dry_run \in BOOLEAN
    /\ given \in ExecutorEnvironments
    /\ actuator_state = [DEFAULT_STATE EXCEPT !.light = given.cached_light]
    /\ stop_file = FALSE
    /\ now = StartOfRun
    /\ limits = load_safety_limits
    /\ agent_mode = "dry-run"
    /\ pending_action = None
    /\ decisions = << >>
    /\ pc = "idle"
    /\ actions = << >>
    /\ history = << >>
    /\ sensor_data = read_sensors_mock
    /\ actions_taken = << >>
    /\ validation = NoValidation
    /\ replayed = NoValidation
    /\ result = NoResult
    /\ calls = << >>
    /\ summary = NoSummary
    /\ handler_error = ""
    /\ step = "input"
    /\ returned = Nothing

\* result = executor.execute(action)
Execute ==
    /\ step = "input"
    /\ LET outcome == given.outcomes[1]
           cmds == ExecuteInvokes(single, dry_run)
           raised == ExecuteRaises(single, dry_run, outcome)
       IN  /\ result' = IF raised = "" THEN execute(single, dry_run, outcome)
                        ELSE NoResult
           /\ calls' = [i \in 1..Len(cmds) |->
                           Call(cmds[i], "execute", stop_file, FALSE)]
           /\ handler_error' = raised
    /\ step' = "execute"
    /\ UNCHANGED << given, returned, env_vars, bot_vars, decisions,
                    actuator_state, cycle_vars, single, validation, replayed,
                    summary >>

\* photo_path = executor.take_photo(output_path)
TakePhoto ==
    /\ step = "input"
    /\ LET photo == take_photo(dry_run, given.outcomes[1])
       IN  /\ calls' = [i \in 1..Len(photo.cmds) |->
                           Call(photo.cmds[i], "photo", stop_file, FALSE)]
           /\ returned' = [kind |-> "photo", photo_path |-> photo.photo_path]
           /\ handler_error' = photo.raised
    /\ step' = "take_photo"
    /\ UNCHANGED << given, env_vars, bot_vars, decisions, actuator_state,
                    cycle_vars, single, validation, replayed, result, summary >>

\* photo_path = executor.take_photo_with_light(output_path, data_dir)
TakePhotoWithLight ==
    /\ step = "input"
    /\ LET on_ok == _run_farmctl(given.outcomes[1]).success
           snap_ok == take_photo(FALSE, given.outcomes[2]).photo_path # None
           off_ok == _run_farmctl(given.outcomes[3]).success
           photo == take_photo_with_light(dry_run, given.data_dir, actuator_state,
                                          on_ok, snap_ok, off_ok)
       IN  /\ calls' = [i \in 1..Len(photo.cmds) |->
                           Call(photo.cmds[i], "photo", stop_file, FALSE)]
           /\ actuator_state' = photo.state
           /\ returned' = [kind |-> "photo",
                           photo_path |-> IF photo.photo THEN Some("output_path")
                                          ELSE None]
    /\ handler_error' = ""
    /\ step' = "take_photo_with_light"
    /\ UNCHANGED << given, env_vars, bot_vars, decisions, cycle_vars, single,
                    validation, replayed, result, summary >>

ExecutorNext ==
    \/ Execute
    \/ TakePhoto
    \/ TakePhotoWithLight

ExecutorSpec == ExecutorInit /\ [][ExecutorNext]_vars

\* ------------------------------------------------------------------------
\* actuator_state.py on its own: one of its functions is applied to a state
\* file in any condition an operator, a crash or the functions themselves
\* can leave it in.
\* ------------------------------------------------------------------------
\* Complete states: the defaults, everything switched, and a mix.
CachedStates ==
    {DEFAULT_STATE,
     [light |-> "on", heater |-> "on", pump |-> "running",
      circulation |-> "running", water_tank |-> "low",
      heater_lockout |-> "active"],
     [DEFAULT_STATE EXCEPT !.light = "on", !.water_tank = "low"]}

\* State files: absent, unreadable, not text, not JSON, JSON that is not an
\* object, and objects holding a complete state, one key, no key, or a
\* key of no actuator.
StateFiles ==
    {OtherFile(k) : k \in {"missing", "unreadable", "not_text", "not_json",
                           "json_not_object"}}
    \cup {StateFile(json_dump(st)) : st \in CachedStates}
    \cup {StateFile({<< "light", "on" >>}),
          StateFile({}),
          StateFile({<< "light", "on" >>, << "fan", "fast" >>})}

\* Names handed to update_after_action.
StateActionNames ==
    ActuatorActions \cup {"do_nothing", "notify_human", "explode"}

\* Hardware fields of a reading: each reported true, reported false, or
\* not reported.
HardwareReports ==
    [temperature_c : {24}, soil_moisture_pct : {45},
     water_tank_ok : {None, Some(TRUE), Some(FALSE)},
     heater_lockout : {None, Some(TRUE), Some(FALSE)},
     light_on : {None, Some(TRUE), Some(FALSE)},
     heater_on : {None, Some(TRUE), Some(FALSE)},
     water_pump_on : {None, Some(TRUE), Some(FALSE)},
     circulation_on : {None, Some(TRUE), Some(FALSE)}]

\* The call made and what it is made on.
StateFileCalls ==
    [kind : {"load"}, file : StateFiles]
    \cup [kind : {"save"}, file : StateFiles, state : CachedStates,
          write : WriteOutcomes]
    \cup [kind : {"update"}, file : StateFiles, action_name : StateActionNames,
          write : WriteOutcomes]
    \cup [kind : {"reconcile"}, file : StateFiles, sensor : HardwareReports,
          write : WriteOutcomes]

StateFileInit ==
    /\ given \in StateFileCalls
    /\ returned = Nothing
    /\ stop_file = FALSE
    /\ now = StartOfRun
    /\ limits = load_safety_limits
    /\ agent_mode = "dry-run"
    /\ pending_action = None
    /\ decisions = << >>
    /\ actuator_state = DEFAULT_STATE
    /\ pc = "idle"
    /\ actions = << >>
    /\ history = << >>
    /\ sensor_data = read_sensors_mock
    /\ dry_run = TRUE
    /\ actions_taken = << >>
    /\ single = NoAction
    /\ validation = NoValidation
    /\ replayed = NoValidation
    /\ result = NoResult
    /\ calls = << >>
    /\ summary = NoSummary
    /\ handler_error = ""
    /\ step = "input"

\* What a call on the state file leaves behind: the exception that left
\* it, the state it returned, the file afterwards.
StateFileReturn(raised, state, file) ==
    /\ handler_error' = raised
    /\ returned' = [kind |-> "state_file", state |-> state, file |-> file]
    /\ UNCHANGED << given, env_vars, bot_vars, decisions, actuator_state,
                    cycle_vars, single, validation, replayed, result, calls,
                    summary >>

\* state = load_actuator_state(data_dir)
LoadActuatorState ==
    /\ step = "input"
    /\ given.kind = "load"
    /\ step' = "load"
    /\ LET loaded == load_actuator_state(given.file)
       IN  StateFileReturn(loaded.raised, loaded.state, given.file)

\* _save_state(state, data_dir); state = load_actuator_state(data_dir)
SaveThenLoad ==
    /\ step = "input"
    /\ given.kind = "save"
    /\ step' = "save_load"
    /\ LET saved == _save_state(given.state, given.file, given.write)
           loaded == load_actuator_state(saved)
       IN  StateFileReturn(loaded.raised, loaded.state, saved)

\* update_after_action(action_name, data_dir)
UpdateAfterAction ==
    /\ step = "input"
    /\ given.kind = "update"
    /\ step' = "update"
    /\ LET updated == update_after_action_on_disk(given.action_name, given.file,
                                                  given.write)
       IN  StateFileReturn(updated.raised, DEFAULT_STATE, updated.file)

\* state = reconcile_actuator_state(sensor_data.to_dict(), data_dir)
ReconcileActuatorState ==
    /\ step = "input"
    /\ given.kind = "reconcile"
    /\ step' = "reconcile"
    /\ LET reconciled == reconcile_actuator_state_on_disk(given.sensor, given.file,
                                                         given.write)
       IN  StateFileReturn(reconciled.raised, reconciled.state, reconciled.file)

StateFileNext ==
    \/ LoadActuatorState
    \/ SaveThenLoad
    \/ UpdateAfterAction
    \/ ReconcileActuatorState

StateFileSpec == StateFileInit /\ [][StateFileNext]_vars

\* ------------------------------------------------------------------------
\* read_sensors on its own: attempts and what the bridge does at each
\* invocation are drawn, the loop runs one pass per step.
\* ------------------------------------------------------------------------
\* The position of read_sensors: passes made, last_error, and once it is
\* over the reading returned or the error raised.
ReadState(made, last_error, done, reading, raised) ==
    [kind |-> "read_sensors", made |-> made, last_error |-> last_error,
     done |-> done, reading |-> reading, raised |-> raised]

SensorInit ==
    /\ given \in [kind : {"read_sensors"},
                  attempts : 0..MaxAttempts,
                  outcomes : [1..MaxAttempts -> AttemptOutcomes]]
    /\ returned = ReadState(0, "None", FALSE, None, None)
    /\ stop_file = FALSE
    /\ now = StartOfRun
    /\ limits = load_safety_limits
    /\ agent_mode = "dry-run"
    /\ pending_action = None
    /\ decisions = << >>
    /\ actuator_state = DEFAULT_STATE
    /\ pc = "idle"
    /\ actions = << >>
    /\ history = << >>
    /\ sensor_data = read_sensors_mock
    /\ dry_run = TRUE
    /\ actions_taken = << >>
    /\ single = NoAction
    /\ validation = NoValidation
    /\ replayed = NoValidation
    /\ result = NoResult
    /\ calls = << >>
    /\ summary = NoSummary
    /\ handler_error = ""
    /\ step = "input"

\* One pass of the loop: a fresh subprocess, then return or keep the error.
ReadAttempt ==
    /\ returned.kind = "read_sensors"
    /\ ~returned.done
    /\ MoreAttempts(returned.made, given.attempts)
    /\ LET pass == Attempt(given.outcomes[returned.made + 1],
                           SensorData(22, 20, None, None, None))
       IN  returned' = IF pass.ok
                       THEN ReadState(returned.made + 1, returned.last_error, TRUE,
                                      pass.reading, None)
                       ELSE ReadState(returned.made + 1, pass.error, FALSE, None,
                                      None)
    /\ calls' = Append(calls, Call(Command("status", "", None), "sensors",
                                   stop_file, FALSE))
    /\ step' = "read_attempt"
    /\ UNCHANGED << given, env_vars, bot_vars, decisions, actuator_state,
                    cycle_vars, single, validation, replayed, result, summary,
                    handler_error >>

\* The loop is over with no reading: raise SensorReadError.
ReadGiveUp ==
    /\ returned.kind = "read_sensors"
    /\ ~returned.done
    /\ ~MoreAttempts(returned.made, given.attempts)
    /\ returned' = ReadState(returned.made, returned.last_error, TRUE, None,
                             Some(SensorReadError(given.attempts,
                                                  returned.last_error)))
    /\ handler_error' = "SensorReadError"
    /\ step' = "read_raise"
    /\ UNCHANGED << given, env_vars, bot_vars, decisions, actuator_state,
                    cycle_vars, single, validation, replayed, result, calls,
                    summary >>

SensorNext ==
    \/ ReadAttempt
    \/ ReadGiveUp

SensorSpec == SensorInit /\ [][SensorNext]_vars

\* ------------------------------------------------------------------------
\* _soil_adc_to_pct on its own: the bridge reports a raw soil code, the
\* code is converted, and the soil dries so that the next code reported is
\* the next higher one.
\* ------------------------------------------------------------------------
SoilInit ==
    /\ given \in [kind : {"soil_raw"}, adc : AdcCodes]
    /\ returned = Nothing
    /\ stop_file = FALSE
    /\ now = StartOfRun
    /\ limits = load_safety_limits
    /\ agent_mode = "dry-run"
    /\ pending_action = None
    /\ decisions = << >>
    /\ actuator_state = DEFAULT_STATE
    /\ pc = "idle"
    /\ actions = << >>
    /\ history = << >>
    /\ sensor_data = read_sensors_mock
    /\ dry_run = TRUE
    /\ actions_taken = << >>
    /\ single = NoAction
    /\ validation = NoValidation
    /\ replayed = NoValidation
    /\ result = NoResult
    /\ calls = << >>
    /\ summary = NoSummary
    /\ handler_error = ""
    /\ step = "input"

\* _parse_sensor_json on a payload with soil_raw: the code is converted.
ConvertSoil ==
    /\ given.kind = "soil_raw"
    /\ returned = Nothing
    /\ returned' = [kind |-> "soil_pct", pct |-> _soil_adc_to_pct(given.adc)]
    /\ step' = "converted"
    /\ UNCHANGED << given, env_vars, bot_vars, decisions, actuator_state,
                    cycle_vars, single, validation, replayed, result, calls,
                    summary, handler_error >>

\* The next reading carries the next higher code and is converted in turn.
ConvertNextCode ==
    /\ given.kind = "soil_raw"
    /\ returned # Nothing
    /\ given.adc + 1 \in AdcCodes
    /\ given' = [given EXCEPT !.adc = @ + 1]
    /\ returned' = [kind |-> "soil_pct", pct |-> _soil_adc_to_pct(given.adc + 1)]
    /\ step' = "converted_next"
    /\ UNCHANGED << env_vars, bot_vars, decisions, actuator_state,
                    cycle_vars, single, validation, replayed, result, calls,
                    summary, handler_error >>

SoilNext ==
    \/ ConvertSoil
    \/ ConvertNextCode

SoilSpec == SoilInit /\ [][SoilNext]_vars

\* ------------------------------------------------------------------------
\* One cycle with the reasoning service answering or failing: the reading
\* and what get_plant_decision does are drawn, run_check decides, and the
\* loop of execute_validated_actions runs on the decision.
\* ------------------------------------------------------------------------
\* Readings on both sides of each threshold of the fallback rules.
FallbackReadings ==
    {SensorData(temp, soil, Some(TRUE), Some(FALSE), Some(FALSE)) :
        temp \in {10, 14, 15, 24, 32, 33}, soil \in {20, 24, 25, 45}}

ServiceOutcomes ==
    {ServiceReply(<< Action(Some("do_nothing"), None, None) >>),
     ServiceFailure("connection refused"),
     ServiceFailure("rate limited")}

FallbackInit ==
    /\ given \in [kind : {"decision"}, sensor : FallbackReadings,
                  reply : ServiceOutcomes, dry : BOOLEAN]
    /\ returned = Nothing
    /\ stop_file = FALSE
    /\ now = StartOfRun
    /\ limits = load_safety_limits
    /\ agent_mode = "dry-run"
    /\ pending_action = None
    /\ decisions = << >>
    /\ actuator_state = DEFAULT_STATE
    /\ pc = "idle"
    /\ actions = << >>
    /\ history = << >>
    /\ sensor_data = read_sensors_mock
    /\ dry_run = TRUE
    /\ actions_taken = << >>
    /\ single = NoAction
    /\ validation = NoValidation
    /\ replayed = NoValidation
    /\ result = NoResult
    /\ calls = << >>
    /\ summary = NoSummary
    /\ handler_error = ""
    /\ step = "input"

\* Steps 1 to 5 of run_check with include_photo = False, and the set-up of
\* step 6: the reading, the history snapshot, reconciliation, the decision.
Decide ==
    /\ given.kind = "decision"
    /\ returned = Nothing
    /\ pc = "idle"
    /\ LET decision == decide(given.sensor, given.reply)
       IN  /\ returned' = [kind |-> "decision", raised |-> "",
                           decision |-> decision]
           /\ actions' = decision.actions
    /\ sensor_data' = given.sensor
    /\ dry_run' = given.dry
    /\ history' = load_recent_decisions(HistoryN, decisions)
    /\ actuator_state' = reconcile_actuator_state(given.sensor, actuator_state)
    /\ pc' = "acting"
    /\ actions_taken' = << >>
    /\ Quiet("decide")
    /\ UNCHANGED << given, env_vars, bot_vars, decisions >>

OneCycleNext ==
    \/ Decide
    \/ ProcessAction
    \/ FinishCycle

FallbackSpec == FallbackInit /\ [][OneCycleNext]_vars

\* ------------------------------------------------------------------------
\* execute_validated_actions on the decision of a reasoning service that
\* answered: the action list, the mode and the decision log found at the
\* start of the cycle are drawn.
\* ------------------------------------------------------------------------
\* Proposed actions: a long watering, switching the heater off, a name
\* outside the allowlist, a no-op, and an action dict without a name.
ActionListActions ==
    {Action(Some("water"), Some(600), None),
     Action(Some("heater_off"), None, None),
     Action(Some("explode"), None, None),
     Action(Some("do_nothing"), None, None),
     Action(None, None, None)}

\* decisions.jsonl as earlier cycles left it: empty, or with the record of
\* a heater_off executed half an hour ago.
ActionListLogs ==
    {<< >>,
     << log_decision(StartOfRun - 30, Action(Some("heater_off"), None, None),
                     ValidationResult(TRUE, "OK", NoAction), TRUE) >>}

ActionListInit ==
    /\ given \in [kind : {"decision"}, sensor : {read_sensors_mock},
                  reply : {ServiceReply(l) :
                              l \in SeqsUpTo(ActionListActions, MaxActions)},
                  dry : BOOLEAN]
    /\ returned = Nothing
    /\ stop_file = FALSE
    /\ now = StartOfRun
    /\ limits = load_safety_limits
    /\ agent_mode = "dry-run"
    /\ pending_action = None
    /\ decisions \in ActionListLogs
    /\ actuator_state = DEFAULT_STATE
    /\ pc = "idle"
    /\ actions = << >>
    /\ history = << >>
    /\ sensor_data = read_sensors_mock
    /\ dry_run = TRUE
    /\ actions_taken = << >>
    /\ single = NoAction
    /\ validation = NoValidation
    /\ replayed = NoValidation
    /\ result = NoResult
    /\ calls = << >>
    /\ summary = NoSummary
    /\ handler_error = ""
    /\ step = "input"

ActionListSpec == ActionListInit /\ [][OneCycleNext]_vars

\* ------------------------------------------------------------------------
\* The same cycle on a data directory whose files may refuse a write or
\* take only part of it (disk full, permissions, read-only mount).
\* ------------------------------------------------------------------------
ProcessActionOnDisk ==
    /\ pc = "acting"
    /\ actions # << >>
    /\ \E log_write \in WriteOutcomes, state_write \in WriteOutcomes :
        Iteration(log_write, state_write)

PersistenceNext ==
    \/ Decide
    \/ ProcessActionOnDisk
    \/ FinishCycle

PersistenceSpec == ActionListInit /\ [][PersistenceNext]_vars

\* ------------------------------------------------------------------------
\* Two callers on one cache file: a scheduled cycle in one process and an
\* action started by hand in another.  Each runs update_after_action or
\* reconcile_actuator_state, which read the file, change the dict they
\* read, and write the dict back; neither takes a lock, so the read and
\* the write of one caller are separate steps the other's may fall between.
\* ------------------------------------------------------------------------
Callers == {"cycle", "manual"}

OtherCaller(caller) == IF caller = "cycle" THEN "manual" ELSE "cycle"

\* A reading whose hardware fields the firmware did not report.
NoHardwareReport ==
    [temperature_c |-> 24, soil_moisture_pct |-> 45, water_tank_ok |-> None,
     heater_lockout |-> None, light_on |-> None, heater_on |-> None,
     water_pump_on |-> None, circulation_on |-> None]

UpdateCall(action_name) ==
    [fn |-> "update_after_action", action_name |-> action_name,
     sensor |-> NoHardwareReport]

ReconcileCall(sensor) ==
    [fn |-> "reconcile_actuator_state", action_name |-> "", sensor |-> sensor]

\* What the cycle runs on the cache: the update after an executed action,
\* or the reconciliation with a reading that reports the tank low, or the
\* tank low and the pump running.
CycleCalls ==
    {UpdateCall("light_on"), UpdateCall("water"),
     ReconcileCall([NoHardwareReport EXCEPT !.water_tank_ok = Some(FALSE)]),
     ReconcileCall([NoHardwareReport EXCEPT !.water_tank_ok = Some(FALSE),
                                            !.water_pump_on = Some(TRUE)])}

\* What the action started by hand runs on the cache.
ManualCalls ==
    {UpdateCall("heater_on"), UpdateCall("light_off"),
     UpdateCall("circulation")}

\* The keys a call assigns in the dict it loaded.
ReportKeys ==
    [light |-> "light_on", heater |-> "heater_on", pump |-> "water_pump_on",
     circulation |-> "circulation_on", water_tank |-> "water_tank_ok",
     heater_lockout |-> "heater_lockout"]

Assigned(call) ==
    IF call.fn = "update_after_action"
    THEN {_ACTION_STATE_MAP[call.action_name][1]}
    ELSE {k \in DOMAIN ReportKeys : call.sensor[ReportKeys[k]] # None}

\* The dict a call holds after its assignments to the dict it loaded.
Modified(call, state) ==
    IF call.fn = "update_after_action"
    THEN update_after_action(call.action_name, state)
    ELSE reconcile_actuator_state(call.sensor, state)

\* A call that made its assignments to what the file holds at the time
\* of writing.
Written_on_fresh_read(call, loaded, on_disk) == Modified(call, on_disk)

\* The dict a call hands to _save_state: the one it loaded, with its own
\* assignments, whatever the file holds by then.
Written(call, loaded, on_disk) == Modified(call, loaded)

\* Cache files the functions themselves leave behind, and none.
RaceFiles ==
    {OtherFile("missing"), StateFile(json_dump(DEFAULT_STATE)),
     StateFile(json_dump([DEFAULT_STATE EXCEPT !.light = "on",
                                               !.pump = "running"])),
     StateFile(json_dump([DEFAULT_STATE EXCEPT !.heater = "on",
                                               !.circulation = "running",
                                               !.water_tank = "low"]))}

\* The two calls are for different actuators.
RaceInputs ==
    {g \in [kind : {"race"}, file : RaceFiles, cycle : CycleCalls,
            manual : ManualCalls] :
        Assigned(g.cycle) \cap Assigned(g.manual) = {}}

RaceInit ==
    /\ given \in RaceInputs
    /\ returned = [kind |-> "race", file |-> given.file,
                   at |-> [c \in Callers |-> "called"],
                   loaded |-> [c \in Callers |-> DEFAULT_STATE],
                   overlapped |-> FALSE, saved |-> << >>]
    /\ stop_file = FALSE
    /\ now = StartOfRun
    /\ limits = load_safety_limits
    /\ agent_mode = "dry-run"
    /\ pending_action = None
    /\ decisions = << >>
    /\ actuator_state = DEFAULT_STATE
    /\ pc = "idle"
    /\ actions = << >>
    /\ history = << >>
    /\ sensor_data = read_sensors_mock
    /\ dry_run = TRUE
    /\ actions_taken = << >>
    /\ single = NoAction
    /\ validation = NoValidation
    /\ replayed = NoValidation
    /\ result = NoResult
    /\ calls = << >>
    /\ summary = NoSummary
    /\ handler_error = ""
    /\ step = "input"

RaceUnchanged ==
    UNCHANGED << given, env_vars, bot_vars, decisions, actuator_state,
                 cycle_vars, single, validation, replayed, result, calls,
                 summary, handler_error >>

\* state = load_actuator_state(data_dir), by one caller.  The calls
\* overlap when the other caller has loaded and not yet saved.
LoadCache ==
    \E caller \in Callers :
        /\ returned.at[caller] = "called"
        /\ returned' =
            [returned EXCEPT
                !.at[caller] = "loaded",
                !.loaded[caller] = load_actuator_state(returned.file).state,
                !.overlapped = @ \/ returned.at[OtherCaller(caller)] = "loaded"]
        /\ step' = "load"
        /\ RaceUnchanged

\* The assignments and _save_state(state, data_dir), by one caller.
SaveCache ==
    \E caller \in Callers :
        /\ returned.at[caller] = "loaded"
        /\ returned' =
            [returned EXCEPT
                !.at[caller] = "saved",
                !.file = _save_state(
                             Written(given[caller], returned.loaded[caller],
                                     load_actuator_state(returned.file).state),
                             returned.file, "ok"),
                !.saved = Append(@, caller)]
        /\ step' = "save"
        /\ RaceUnchanged

RaceNext ==
    \/ LoadCache
    \/ SaveCache

RaceSpec == RaceInit /\ [][RaceNext]_vars

\* ------------------------------------------------------------------------
\* Properties
\* ------------------------------------------------------------------------
ActuatorDevices == {"pump", "heater", "light", "circulation"}

\* What a caller asked for, read off the action dict as handed in.
RequestedName(a) == IF a.action = None THEN "" ELSE CHOOSE n \in a.action : TRUE

RequestedDuration(a) ==
    IF a.duration_sec # None THEN CHOOSE d \in a.duration_sec : TRUE
    ELSE IF a.params.duration_sec # None
    THEN CHOOSE d \in a.params.duration_sec : TRUE
    ELSE 0

MaxDurationFor(name, lim) ==
    IF name = "water" THEN lim.water.max_duration_sec
    ELSE lim.circulation.max_duration_sec

\* The number of records of h written within the `minutes` before t whose
\* logged action is neither do_nothing nor notify_human.
CountRecentReal(h, t, minutes) ==
    Cardinality({i \in 1..Len(h) :
        /\ t - h[i].timestamp <= minutes
        /\ h[i].action \notin {"do_nothing", "notify_human"}})

\* The records of h that the cycle logged for a proposed water action.
WaterRecords(h) ==
    {i \in 1..Len(h) : h[i].fmt = "agent" /\ h[i].action = "water"}

CeilingReached == CountRecentReal(history, now, HourWindowMin) >= limits.max_actions_per_hour

\* C1: an accepted water or circulation action that asked for more than the
\* configured maximum is executed with --sec equal to that maximum, also
\* when the duration came inside params.
C1_CommandCarriesTheCap ==
    (/\ step = "iteration"
     /\ validation.valid
     /\ RequestedName(single) \in {"water", "circulation"}
     /\ RequestedDuration(single) > MaxDurationFor(RequestedName(single), limits))
    => result.command.sec = {MaxDurationFor(RequestedName(single), limits)}

\* C2: every actuator command that a handler sends to the bridge through
\* the executor was preceded by a validate_action call on that action that
\* returned valid.
C2_EveryCommandWasValidated ==
    \A i \in 1..Len(calls) :
        (calls[i].origin # "photo" /\ calls[i].cmd.dev \in ActuatorDevices)
        => calls[i].validated

\* C3: no pump, heater, light or circulation command is issued to the
\* bridge while the emergency-stop file is present.
C3_NoActuationWhileStopped ==
    \A i \in 1..Len(calls) :
        calls[i].cmd.dev \in ActuatorDevices => ~calls[i].stop

\* C4: with the emergency-stop file present validate_action returns
\* valid = false for every action, whatever the reading and the history.
C4_StopRejectsEveryAction ==
    (step = "validated" /\ stop_file)
    => (~validation.valid /\ validation.reason = "emergency_stop")

C4_Witness ==
    /\ step = "validated"
    /\ stop_file
    /\ RequestedName(single) = "do_nothing"
    /\ ~validation.valid

C7_GlobalRateLimitExactlyAtTheCeiling ==
    (/\ step = "validated"
     /\ ~stop_file
     /\ RequestedName(single) \in ALLOWED_ACTIONS \ {"do_nothing", "notify_human"})
    => /\ (validation.reason = "global_rate_limit") <=> CeilingReached
       /\ CeilingReached => ~validation.valid

C7_Witness ==
    /\ step = "validated"
    /\ ~stop_file
    /\ RequestedName(single) = "water"
    /\ CountRecentReal(history, now, HourWindowMin) = limits.max_actions_per_hour
    /\ validation.reason = "global_rate_limit"

\* C8: with the stop file absent, do_nothing and notify_human are accepted
\* with reason OK for every history and reading, and records whose action
\* is do_nothing or notify_human never count toward the hourly ceiling.
C8_PassthroughAcceptedAndNeverCounted ==
    /\ (/\ step = "validated"
        /\ ~stop_file
        /\ RequestedName(single) \in {"do_nothing", "notify_human"})
       => (/\ validation.valid
           /\ validation.reason = "OK"
           /\ validation.capped_action = single)
    /\ (/\ step = "validated"
        /\ ~stop_file
        /\ ~CeilingReached)
       => validation.reason # "global_rate_limit"

C8_Witness ==
    /\ step = "validated"
    /\ ~stop_file
    /\ RequestedName(single) = "do_nothing"
    /\ CeilingReached
    /\ validation.valid

\* C9: with the stop file absent, an action whose name is not one of the
\* eight allowed kinds, the empty and the missing name included, is
\* rejected at the allowlist, whatever the history and the reading.
C9_UnknownNamesRejectedAtTheAllowlist ==
    (/\ step = "validated"
     /\ ~stop_file
     /\ RequestedName(single) \notin
            {"water", "light_on", "light_off", "heater_on", "heater_off",
             "circulation", "do_nothing", "notify_human"})
    => (~validation.valid /\ validation.reason = "not_in_allowlist")

C9_Witness ==
    /\ step = "validated"
    /\ ~stop_file
    /\ single.action = None
    /\ CeilingReached
    /\ sensor_data.water_tank_ok = {FALSE}
    /\ validation.reason = "not_in_allowlist"

\* A water request that passes every check before the interval check.
WaterRequestReachesIntervalCheck ==
    /\ ~stop_file
    /\ RequestedName(single) = "water"
    /\ RequestedDuration(single) > 0
    /\ sensor_data.water_tank_ok # {FALSE}
    /\ ~CeilingReached

RecentWaterRecord ==
    \E i \in WaterRecords(history) :
        now - history[i].timestamp <= limits.water.min_interval_min

WaterRecordsToday ==
    {i \in WaterRecords(history) :
        history[i].timestamp \div MinutesPerDay = now \div MinutesPerDay}

C11_BlockedWateringNeverLocks ==
    (/\ step = "validated"
     /\ WaterRequestReachesIntervalCheck
     /\ RecentWaterRecord
     /\ \A i \in WaterRecords(history) :
            now - history[i].timestamp <= limits.water.min_interval_min
            => ~history[i].executed
     /\ Cardinality(WaterRecordsToday) < limits.water.daily_max_count)
    => validation.valid

\* C12: a water request is rejected when the water records written on or
\* after today's UTC midnight number daily_max_count or more, also when
\* each of them is older than the minimum interval; the reason is then the
\* daily limit.
C12_WaterDailyMaximum ==
    /\ (/\ step = "validated"
        /\ RequestedName(single) = "water"
        /\ Cardinality(WaterRecordsToday) >= limits.water.daily_max_count)
       => ~validation.valid
    /\ (/\ step = "validated"
        /\ WaterRequestReachesIntervalCheck
        /\ ~RecentWaterRecord
        /\ Cardinality(WaterRecordsToday) >= limits.water.daily_max_count)
       => validation.reason = "water_daily_limit"

C12_Witness ==
    /\ step = "validated"
    /\ WaterRequestReachesIntervalCheck
    /\ ~RecentWaterRecord
    /\ Cardinality(WaterRecordsToday) = limits.water.daily_max_count
    /\ ~validation.valid
    /\ validation.reason = "water_daily_limit"

\* A water request that no rule of the validator speaks against.
WaterRequestUnobjectionable ==
    /\ WaterRequestReachesIntervalCheck
    /\ ~RecentWaterRecord
    /\ Cardinality(WaterRecordsToday) < limits.water.daily_max_count

\* C13: a water request above max_duration_sec with no other rule violated
\* is accepted with capped_action.duration_sec = max_duration_sec; one with
\* 0 < duration_sec <= max_duration_sec is accepted with its duration
\* unchanged.
C13_WaterIsCappedNotRejected ==
    (step = "validated" /\ WaterRequestUnobjectionable)
    => /\ validation.valid
       /\ validation.capped_action.duration_sec =
              {Min(RequestedDuration(single), limits.water.max_duration_sec)}
       /\ validation.capped_action.capped
              <=> RequestedDuration(single) > limits.water.max_duration_sec

C13_Witness ==
    /\ step = "validated"
    /\ WaterRequestUnobjectionable
    /\ single.params.duration_sec = {600}
    /\ validation.valid
    /\ validation.capped_action.duration_sec = {limits.water.max_duration_sec}

\* C14: a water or circulation request whose duration_sec is zero,
\* negative or absent is never accepted and never capped; once the stop,
\* ceiling and tank checks have passed, its reason is that the duration
\* must be positive.
C14_NonPositiveDurationRejected ==
    (/\ step = "validated"
     /\ RequestedName(single) \in {"water", "circulation"}
     /\ RequestedDuration(single) <= 0)
    => /\ ~validation.valid
       /\ ~validation.capped_action.capped
       /\ (~stop_file /\ ~CeilingReached
            /\ ~(RequestedName(single) = "water"
                  /\ sensor_data.water_tank_ok = {FALSE}))
           => validation.reason =
                 IF RequestedName(single) = "water"
                 THEN "water_duration_not_positive"
                 ELSE "circulation_duration_not_positive"

C14_Witness ==
    /\ step = "validated"
    /\ ~stop_file
    /\ RequestedName(single) = "circulation"
    /\ single.params.duration_sec = {0}
    /\ validation.reason = "circulation_duration_not_positive"

\* C15: a water request is rejected with the tank reason when the reading
\* says water_tank_ok = false (stop absent, ceiling not reached); a tank
\* status of true or unknown never yields the tank reason, and unknown is
\* judged exactly as true is.
C15_TankLowBlocksWaterOnlyWhenExplicit ==
    /\ (/\ step = "validated"
        /\ ~stop_file
        /\ RequestedName(single) = "water"
        /\ ~CeilingReached
        /\ sensor_data.water_tank_ok = {FALSE})
       => (~validation.valid /\ validation.reason = "tank_low")
    /\ (step = "validated" /\ sensor_data.water_tank_ok # {FALSE})
       => /\ validation.reason # "tank_low"
          /\ validation =
                validate_action(single,
                                [sensor_data EXCEPT !.water_tank_ok = {TRUE}],
                                history, stop_file, now, limits)

C15_Witness ==
    /\ step = "validated"
    /\ ~stop_file
    /\ RequestedName(single) = "water"
    /\ RequestedDuration(single) > 0
    /\ sensor_data.water_tank_ok = {}
    /\ history = << >>
    /\ validation.valid

\* The reading speaks against heater_on: the firmware lockout is on, or the
\* temperature is at or above the heater's limit.
HeaterBlocked ==
    \/ sensor_data.heater_lockout = {TRUE}
    \/ sensor_data.temperature_c >= limits.heater.max_temp_c

\* C16: with the stop absent and the hourly ceiling not reached, heater_on
\* is rejected if and only if heater_lockout is true or temperature_c >=
\* max_temp_c; it is accepted whenever the temperature is below the limit
\* and the lockout is false or unknown.
C16_HeaterOnRejectedExactlyWhenBlocked ==
    (/\ step = "validated"
     /\ ~stop_file
     /\ ~CeilingReached
     /\ RequestedName(single) = "heater_on")
    => /\ ~validation.valid <=> HeaterBlocked
       /\ validation.valid => validation.reason = "OK"
       /\ ~validation.valid =>
             validation.reason \in {"heater_lockout", "heater_temp_at_max"}

C16_Witness ==
    /\ step = "validated"
    /\ ~stop_file
    /\ ~CeilingReached
    /\ RequestedName(single) = "heater_on"
    /\ sensor_data.temperature_c = limits.heater.max_temp_c
    /\ sensor_data.heater_lockout = {FALSE}
    /\ ~validation.valid

\* C17: heater_off and light_off are accepted for every temperature,
\* lockout state, time of day and light schedule, once the stop and the
\* hourly ceiling checks have passed.
C17_SwitchingOffAlwaysAccepted ==
    (/\ step = "validated"
     /\ ~stop_file
     /\ ~CeilingReached
     /\ RequestedName(single) \in {"heater_off", "light_off"})
    => (validation.valid /\ validation.reason = "OK")

C17_Witness ==
    /\ step = "validated"
    /\ ~stop_file
    /\ RequestedName(single) = "light_off"
    /\ LocalTimeOfDay(now) < 6 * 60
    /\ sensor_data.heater_lockout = {TRUE}
    /\ validation.valid

\* The time of day on the host's local clock, minutes after local midnight.
HostLocalMinutes == (now + UtcOffsetMin) % MinutesPerDay

\* A schedule text read as a time of day: minutes after midnight.
TextMinutes(text) == (text[1] * 10 + text[2]) * 60 + text[3] * 10 + text[4]

\* The local time of day is outside the light schedule: before
\* schedule_on, or at or after a schedule_off that is not "24:00".
OutsideLightSchedule ==
    \/ HostLocalMinutes < TextMinutes(limits.light.schedule_on)
    \/ /\ TextMinutes(limits.light.schedule_off) # 24 * 60
       /\ HostLocalMinutes >= TextMinutes(limits.light.schedule_off)

\* C18: with the stop absent and the hourly ceiling not reached, light_on
\* is rejected exactly when the local time of day is before schedule_on,
\* or schedule_off is not "24:00" and the local time is at or after it.
C18_LightOnRejectedExactlyOutsideSchedule ==
    (/\ step = "validated"
     /\ ~stop_file
     /\ ~CeilingReached
     /\ RequestedName(single) = "light_on")
    => /\ ~validation.valid <=> OutsideLightSchedule
       /\ validation.reason =
             IF HostLocalMinutes < TextMinutes(limits.light.schedule_on)
             THEN "light_too_early"
             ELSE IF OutsideLightSchedule THEN "light_too_late" ELSE "OK"

C18_Witness ==
    /\ step = "validated"
    /\ ~stop_file
    /\ ~CeilingReached
    /\ RequestedName(single) = "light_on"
    /\ HostLocalMinutes = TextMinutes(limits.light.schedule_off)
    /\ validation.reason = "light_too_late"

\* The records of h that the cycle logged for a proposed circulation action.
CirculationRecords(h) ==
    {i \in 1..Len(h) : h[i].fmt = "agent" /\ h[i].action = "circulation"}

\* C19: a circulation request with positive duration is accepted however
\* recent and however many the circulation records of the history are,
\* with capped duration min(requested, circulation max_duration_sec);
\* only the emergency stop and the hourly ceiling reject it.
C19_CirculationHasNoHistoryRule ==
    (/\ step = "validated"
     /\ RequestedName(single) = "circulation"
     /\ RequestedDuration(single) > 0)
    => /\ (~stop_file /\ ~CeilingReached)
          => /\ validation.valid
             /\ validation.reason = "OK"
             /\ validation.capped_action.duration_sec =
                    {Min(RequestedDuration(single),
                         limits.circulation.max_duration_sec)}
       /\ ~validation.valid
          => /\ validation.reason \in {"emergency_stop", "global_rate_limit"}
             /\ validation.reason = "emergency_stop" <=> stop_file

C19_Witness ==
    /\ step = "validated"
    /\ ~stop_file
    /\ RequestedName(single) = "circulation"
    /\ RequestedDuration(single) > limits.circulation.max_duration_sec
    /\ \E i \in CirculationRecords(history) : history[i].timestamp = now - HourWindowMin
    /\ validation.valid
    /\ validation.capped_action.duration_sec = {limits.circulation.max_duration_sec}

\* The reason of the first check that fails, in the order: emergency stop,
\* allowlist, passthrough, hourly ceiling, then for water: tank, duration,
\* minimum interval, daily count.
FirstFailingCheck ==
    IF stop_file THEN "emergency_stop"
    ELSE IF RequestedName(single) \notin
              {"water", "light_on", "light_off", "heater_on", "heater_off",
               "circulation", "do_nothing", "notify_human"}
    THEN "not_in_allowlist"
    ELSE IF RequestedName(single) \in {"do_nothing", "notify_human"} THEN "OK"
    ELSE IF CeilingReached THEN "global_rate_limit"
    ELSE IF sensor_data.water_tank_ok = {FALSE} THEN "tank_low"
    ELSE IF RequestedDuration(single) <= 0 THEN "water_duration_not_positive"
    ELSE IF RecentWaterRecord THEN "water_min_interval"
    ELSE IF Cardinality(WaterRecordsToday) >= limits.water.daily_max_count
    THEN "water_daily_limit"
    ELSE "OK"

\* Checks of a water request that fail, whatever their place in the order.
FailingChecks ==
    Cardinality({c \in 1..6 :
        \/ c = 1 /\ stop_file
        \/ c = 2 /\ CeilingReached
        \/ c = 3 /\ sensor_data.water_tank_ok = {FALSE}
        \/ c = 4 /\ RequestedDuration(single) <= 0
        \/ c = 5 /\ RecentWaterRecord
        \/ c = 6 /\ Cardinality(WaterRecordsToday) >= limits.water.daily_max_count})

\* C20: validate_action returns the reason of the first failing check in
\* the order emergency stop, allowlist, passthrough, hourly ceiling, then
\* (water) tank, duration, cap, minimum interval, daily count: a later
\* check never masks an earlier failure.  The cap sits between the duration
\* and the interval checks: a rejection before it leaves the action
\* uncapped, a rejection after it carries the capped duration.
C20_FirstFailingCheckDecides ==
    (step = "validated"
     /\ RequestedName(single) \notin {"light_on", "light_off", "heater_on",
                                      "heater_off", "circulation"})
    => /\ validation.reason = FirstFailingCheck
       /\ validation.valid <=> FirstFailingCheck = "OK"
       /\ validation.reason \in {"emergency_stop", "global_rate_limit", "tank_low",
                                  "water_duration_not_positive"}
          => ~validation.capped_action.capped
       /\ (/\ validation.reason \in {"water_min_interval", "water_daily_limit"}
           /\ RequestedDuration(single) > limits.water.max_duration_sec)
          => /\ validation.capped_action.capped
             /\ validation.capped_action.duration_sec =
                    {limits.water.max_duration_sec}

C20_Witness ==
    /\ step = "validated"
    /\ RequestedName(single) = "water"
    /\ ~stop_file
    /\ ~CeilingReached
    /\ FailingChecks >= 3
    /\ sensor_data.water_tank_ok = {FALSE}
    /\ RecentWaterRecord
    /\ validation.reason = "tank_low"

\* ------------------------------------------------------------------------
\* ActionExecutor
\* ------------------------------------------------------------------------
\* The bridge outcome that the one invocation of execute met.
ExecuteOutcome == given.outcomes[1]

\* C21: in live mode execute returns an ExecutionResult for every bridge
\* outcome and never raises: exit code 0 gives success with the bridge's
\* stdout as output and no error; a non-zero exit, a timeout, a missing
\* executable and any other OS error give failure with an error message,
\* empty output and the command that was attempted.
C21_LiveExecuteAlwaysReturnsAResult ==
    (/\ step = "execute"
     /\ ~dry_run
     /\ RequestedName(single) \in ActuatorActions)
    => /\ handler_error = ""
       /\ Len(calls) = 1
       /\ result.action = RequestedName(single)
       /\ result.command = calls[1].cmd
       /\ ~result.dry_run
       /\ IF ExecuteOutcome = "ok"
          THEN result.success /\ result.output = << "stdout" >> /\ result.error = ""
          ELSE ~result.success /\ result.output = << >> /\ result.error # ""

C21_Witness ==
    /\ step = "execute"
    /\ ~dry_run
    /\ RequestedName(single) = "water"
    /\ ExecuteOutcome = "os_error"
    /\ ~result.success
    /\ result.command = Command("pump", "on", Some(8))
    /\ handler_error = ""

\* C22: an executor built with dry_run = true never invokes the bridge
\* from execute or take_photo, and for each of the six actuator actions it
\* returns success with dry_run set, the full command and an output that
\* marks the command as simulated.
C22_DryRunNeverInvokesTheBridge ==
    (dry_run /\ step \in {"execute", "take_photo"})
    => /\ calls = << >>
       /\ handler_error = ""
       /\ (step = "execute" /\ RequestedName(single) \in ActuatorActions)
          => /\ result.success
             /\ result.dry_run
             /\ result.error = ""
             /\ result.command.dev \in ActuatorDevices
             /\ result.command = _ACTION_MAP(RequestedName(single), single.params)
             /\ result.output = << "[DRY-RUN]", result.command >>

C22_Witness ==
    /\ dry_run
    /\ step = "execute"
    /\ RequestedName(single) = "circulation"
    /\ ExecuteOutcome = "timeout"
    /\ result.success
    /\ result.command = Command("circulation", "on", Some(4000))
    /\ calls = << >>

\* C23: for a name outside the six actuator kinds execute invokes nothing
\* and raises nothing, in either mode: do_nothing and notify_human give
\* success with an empty command; any other name, the empty name and a
\* missing name included, gives failure with an "Unknown action" error and
\* an empty command.
C23_NamesOutsideTheMapNeverReachTheBridge ==
    (step = "execute" /\ RequestedName(single) \notin ActuatorActions)
    => /\ calls = << >>
       /\ handler_error = ""
       /\ result.command = NoCommand
       /\ result.action = RequestedName(single)
       /\ result.dry_run = dry_run
       /\ IF RequestedName(single) \in {"do_nothing", "notify_human"}
          THEN result.success /\ result.error = ""
          ELSE ~result.success /\ result.error = "Unknown action"
                /\ result.output = << >>

C23_Witness ==
    /\ step = "execute"
    /\ ~dry_run
    /\ single.action = None
    /\ ~result.success
    /\ result.error = "Unknown action"
    /\ calls = << >>

\* The commands of the bridge invocations of the last step, in order.
CommandsIssued == [i \in 1..Len(calls) |-> calls[i].cmd]

C25_NoLightToggleWhenAlreadyOn ==
    (/\ step = "take_photo_with_light"
     /\ ~dry_run
     /\ given.data_dir
     /\ given.cached_light = "on")
    => CommandsIssued = << Command("camera-snap", "", None) >>

\* ------------------------------------------------------------------------
\* The actuator state cache
\* ------------------------------------------------------------------------
\* The hardware field that reports on each actuator, and the cached value
\* that stands for a reported true and a reported false.
HardwareReport ==
    [light |-> [field |-> "light_on", yes |-> "on", no |-> "off"],
     heater |-> [field |-> "heater_on", yes |-> "on", no |-> "off"],
     pump |-> [field |-> "water_pump_on", yes |-> "running", no |-> "idle"],
     circulation |-> [field |-> "circulation_on", yes |-> "running", no |-> "idle"],
     water_tank |-> [field |-> "water_tank_ok", yes |-> "ok", no |-> "low"],
     heater_lockout |-> [field |-> "heater_lockout", yes |-> "active",
                         no |-> "normal"]]

\* The cached state as a reader of the file sees it.
Cached(file) == load_actuator_state(file).state

\* C26: reconcile_actuator_state returns a state in which every actuator
\* whose hardware field is reported carries the reported value and every
\* actuator whose field is not reported keeps its cached value, and that
\* state is what the file holds once the write has gone through.
C26_HardwareOverridesTheCacheFieldByField ==
    (step = "reconcile")
    => /\ handler_error = ""
       /\ \A k \in DOMAIN DEFAULT_STATE :
              LET reported == given.sensor[HardwareReport[k].field]
              IN  returned.state[k] =
                      IF reported = None THEN Cached(given.file)[k]
                      ELSE IF reported = Some(TRUE) THEN HardwareReport[k].yes
                      ELSE HardwareReport[k].no
       /\ (given.write = "ok") => Cached(returned.file) = returned.state

\* C27: load_actuator_state never fails its caller: with no file or a
\* file of malformed content it returns the default state, and from an
\* object that lacks keys it returns the object's values completed with
\* the default for each missing key.
C27_LoadNeverFails ==
    (step = "load")
    => /\ handler_error = ""
       /\ (given.file.kind # "json_object") => returned.state = DEFAULT_STATE
       /\ (given.file.kind = "json_object")
          => \A k \in DOMAIN DEFAULT_STATE :
                 \/ << k, returned.state[k] >> \in given.file.members
                 \/ /\ \A m \in given.file.members : m[1] # k
                    /\ returned.state[k] = DEFAULT_STATE[k]

\* C28: a state saved and loaded back is the same state; and
\* update_after_action(a) leaves the cached state with the one actuator
\* that a maps to set to its value and every other actuator as it was, and
\* leaves the file untouched for a name that maps to nothing.
C28_RoundTripAndSingleActuatorUpdate ==
    /\ (step = "save_load" /\ given.write = "ok")
       => handler_error = "" /\ returned.state = given.state
    /\ (step = "update" /\ given.action_name \notin DOMAIN _ACTION_STATE_MAP)
       => handler_error = "" /\ returned.file = given.file
    /\ (step = "update" /\ given.action_name \in DOMAIN _ACTION_STATE_MAP
          /\ given.write = "ok")
       => /\ handler_error = ""
          /\ Cached(returned.file) =
                 [Cached(given.file) EXCEPT
                     ![_ACTION_STATE_MAP[given.action_name][1]] =
                         _ACTION_STATE_MAP[given.action_name][2]]

\* ------------------------------------------------------------------------
\* read_sensors
\* ------------------------------------------------------------------------
\* The bridge's i-th invocation does not deliver a reading.
AttemptFails(i) == given.outcomes[i] # "ok"

\* C29: read_sensors invokes the bridge at most attempts times; every
\* invocation but the first follows a failed one, whatever the kind of
\* the failure; it returns a reading on the first invocation that
\* delivers one and invokes nothing after it; it raises SensorReadError
\* only after exactly attempts failed invocations, and the error names
\* attempts and the failure of the last invocation.
C29_RetriesUntilSuccessOrAttemptsExhausted ==
    (returned.kind = "read_sensors")
    => /\ Len(calls) = returned.made
       /\ Len(calls) <= given.attempts
       /\ \A i \in 1..Len(calls) - 1 : AttemptFails(i)
       /\ (~returned.done) => \A i \in 1..Len(calls) : AttemptFails(i)
       /\ returned.done => (returned.reading # None) # (returned.raised # None)
       /\ (returned.reading # None) => ~AttemptFails(Len(calls))
       /\ (returned.raised # None)
          => /\ Len(calls) = given.attempts
             /\ \A i \in 1..given.attempts : AttemptFails(i)
             /\ \E e \in returned.raised :
                    /\ e.exception = "SensorReadError"
                    /\ e.attempts = given.attempts
                    /\ e.last_error =
                           IF given.attempts = 0 THEN "None"
                           ELSE Attempt(given.outcomes[given.attempts],
                                        read_sensors_mock).error

C29_Witness ==
    /\ returned.kind = "read_sensors"
    /\ given.attempts = 3
    /\ given.outcomes = << "nonzero_exit", "missing_fields", "os_error" >>
    /\ Len(calls) = 3
    /\ returned.raised = Some(SensorReadError(3, "OS error"))

\* ------------------------------------------------------------------------
\* run_check
\* ------------------------------------------------------------------------
\* C30: when the sensor read fails run_check returns a summary whose
\* error is set and whose sensor_data and decision are None, and the step
\* does nothing else: no bridge invocation, no validation, no execution, no
\* record added to the decision log, no change of the actuator state cache,
\* and no action list left to be processed.
C30_SensorFailureEndsTheCycle ==
    [][(step' = "sensor_fail")
       => /\ summary'.error # None
          /\ summary'.sensor_data = None
          /\ summary'.decision = None
          /\ summary'.actions_taken = << >>
          /\ ~summary'.executed
          /\ calls' = << >>
          /\ validation' = NoValidation
          /\ result' = NoResult
          /\ decisions' = decisions
          /\ actuator_state' = actuator_state
          /\ pc' = "idle"
          /\ actions' = << >>]_vars

C30_Witness ==
    /\ step = "sensor_fail"
    /\ summary.error = Some("Sensor read failed")
    /\ Len(decisions) = 1
    /\ pc = "idle"

\* ------------------------------------------------------------------------
\* The offline fallback rules
\* ------------------------------------------------------------------------
\* The single action the fallback policy proposes for a reading, read off
\* the thresholds: soil first, then cold, then hot, else do_nothing.
FirstMatchingRule(sensor) ==
    IF sensor.soil_moisture_pct < 25 THEN Action(Some("water"), Some(5), None)
    ELSE IF sensor.temperature_c < 15 THEN Action(Some("heater_on"), None, None)
    ELSE IF sensor.temperature_c > 32 THEN Action(Some("heater_off"), None, None)
    ELSE Action(Some("do_nothing"), None, None)

NoRuleMatches(sensor) ==
    /\ sensor.soil_moisture_pct >= 25
    /\ sensor.temperature_c >= 15
    /\ sensor.temperature_c <= 32

Proposed == given.reply.actions

\* The name execute_validated_actions reads off a proposed action.
ProposedName(act) == IF act.action = None THEN "do_nothing" ELSE RequestedName(act)

InActionList == given.kind = "decision" /\ ~given.reply.failed /\ returned # Nothing

Apart(a, b) == IF a >= b THEN a - b ELSE b - a

SoilConversionRangeAndMonotone ==
    [][(returned'.kind = "soil_pct")
       => /\ returned'.pct >= 0
          /\ returned'.pct <= 100 * PctScale
          /\ (returned.kind = "soil_pct" /\ given'.adc > given.adc)
             => returned'.pct <= returned.pct]_vars

ExecutedInTheLastHour ==
    {i \in 1..Len(decisions) :
        /\ decisions[i].executed
        /\ decisions[i].action \notin {"do_nothing", "notify_human"}
        /\ now - decisions[i].timestamp <= HourWindowMin}

RecentManualWaterings ==
    {i \in 1..Len(history) :
        /\ history[i].fmt = "manual"
        /\ history[i].action = "water"
        /\ history[i].executed
        /\ now - history[i].timestamp < limits.water.min_interval_min}

\* C38: a water action proposed by a scheduled cycle whose history holds
\* the record of a manual watering executed less than min_interval_min ago
\* is rejected.
C38_ManualWateringBlocksScheduledWater ==
    (/\ step = "iteration"
     /\ RequestedName(single) = "water"
     /\ RecentManualWaterings # {})
    => ~validation.valid

BothSaved ==
    /\ returned.kind = "race"
    /\ \A caller \in Callers : returned.at[caller] = "saved"

\* The cache as the next load_actuator_state returns it, and as it was
\* before either call.
FinalCache == load_actuator_state(returned.file).state

InitialCache == load_actuator_state(given.file).state

\* Every key the call assigns holds in state the value the call assigns.
Preserved(call, state) ==
    \A k \in Assigned(call) : state[k] = Modified(call, DEFAULT_STATE)[k]

\* C40: update_after_action and reconcile_actuator_state load, modify and
\* save the cache file without a lock.  Once a cycle's call and a manual
\* call for different actuators have both saved: if one saved before the
\* other loaded, the cache holds the assignments of both; if both loaded
\* before either saved, the cache is the initial cache with the
\* assignments of the later saver only, every key the earlier saver
\* assigned being as it was before either call.
C40_UnlockedLoadModifySaveLosesInterleavedUpdate ==
    BothSaved =>
        /\ ~returned.overlapped =>
               /\ Preserved(given.cycle, FinalCache)
               /\ Preserved(given.manual, FinalCache)
        /\ returned.overlapped =>
               /\ FinalCache = Modified(given[returned.saved[2]], InitialCache)
               /\ \A k \in Assigned(given[returned.saved[1]]) :
                      FinalCache[k] = InitialCache[k]

\* The cycle and the manual call both loaded before either saved, and the
\* cache does not hold what the earlier saver assigned.
C40_Witness ==
    /\ BothSaved
    /\ returned.overlapped
    /\ ~Preserved(given[returned.saved[1]], FinalCache)
    /\ Preserved(given[returned.saved[2]], FinalCache)

====
